---- MODULE Spec2Model ----
(***************************************************************************)
(* Passkey (WebAuthn) authentication core of fido2-blueprint.               *)
(*                                                                         *)
(* The session is an encrypted cookie held by the client (iron-session):   *)
(* every request decodes the cookie it was sent into a request-local       *)
(* session object, and session.save() re-seals that whole object into the  *)
(* cookie. The store is one SQLite database shared by all requests. A      *)
(* request is an async function: other requests may run at each await.     *)
(***************************************************************************)
EXTENDS Integers, FiniteSets, Sequences, TLC

VARIABLES
    users,      \* rows of table users: set of [id, username]
    creds,      \* table credentials: credential id -> row (owner = 0: no row)
    jar,        \* the session cookie each client holds
    req,        \* the requests in flight (and the last finished one per slot)
    nextUid,    \* randomUUID(): the next fresh user id
    nextChal,   \* the next fresh challenge of generate*Options
    now,        \* Date.now(), in hours
    consumed    \* history: how often each challenge was handed to a Finish

vars == <<users, creds, jar, req, nextUid, nextChal, now, consumed>>

----------------------------------------------------------------------------
\* Bounds of the model.

MaxUsers == 2       \* user ids ever generated by registerStart
MaxChal == 3        \* challenges ever generated by a Start
MaxCounter == 2     \* largest signature counter an authenticator reports
MaxSlots == 2       \* requests in flight at the same time
MaxNow == 11        \* the clock's last hour

\* Program constants.
ABSOLUTE_TIMEOUT_HOURS == 8

Sessions == {"s1", "s2"}
Usernames == {"alice", "bob"}

\* Usernames the schema refuses: too short, disallowed character, too long.
BadUsernames == {"ab", "test@user", "abcdefghijklmnopqrstuvwxyz01234"}

\* Names a caller gives a passkey; the empty one is refused.
CredentialNames == {"", "My Phone"}
CredIds == {"c1", "c2", "c3"}
Slots == 1..MaxSlots
UserIds == 1..MaxUsers
Challenges == 1..MaxChal

----------------------------------------------------------------------------
\* Input validation.

UsernameAlphabet ==
    {"a", "b", "c", "d", "e", "f", "g", "h", "i", "j", "k", "l", "m", "n", "o",
     "p", "q", "r", "s", "t", "u", "v", "w", "x", "y", "z",
     "A", "B", "C", "D", "E", "F", "G", "H", "I", "J", "K", "L", "M", "N", "O",
     "P", "Q", "R", "S", "T", "U", "V", "W", "X", "Y", "Z",
     "0", "1", "2", "3", "4", "5", "6", "7", "8", "9", "_"}

\* The characters of the usernames the requests carry.
Chars(username) ==
    CASE username = "alice" -> <<"a", "l", "i", "c", "e">>
      [] username = "bob" -> <<"b", "o", "b">>
      [] username = "ab" -> <<"a", "b">>
      [] username = "test@user" -> <<"t", "e", "s", "t", "@", "u", "s", "e", "r">>
      [] username = "abcdefghijklmnopqrstuvwxyz01234" ->
            <<"a", "b", "c", "d", "e", "f", "g", "h", "i", "j", "k", "l", "m",
              "n", "o", "p", "q", "r", "s", "t", "u", "v", "w", "x", "y", "z",
              "0", "1", "2", "3", "4">>

\* usernameSchema: 3 to 30 characters, letters, digits and underscores only
usernameSchema(username) ==
    /\ Len(Chars(username)) >= 3
    /\ Len(Chars(username)) <= 30
    /\ \A i \in 1..Len(Chars(username)) : Chars(username)[i] \in UsernameAlphabet

\* renameCredential's input: z.string().min(1).max(50)
credentialNameSchema(name) == Len(name) >= 1 /\ Len(name) <= 50

----------------------------------------------------------------------------
\* Session data (session.ts). 0, "" and "none" stand for undefined.

EmptySession ==
    [userId |-> 0, username |-> "", createdAt |-> 0,
     challenge |-> 0, challengeType |-> "none",
     pendingUserId |-> 0, pendingUsername |-> ""]

ABSOLUTE_MAX_AGE == ABSOLUTE_TIMEOUT_HOURS

\* A createSession that stamps the session but names no user.
createSession_Anonymous(session, userId, username, t) ==
    [session EXCEPT !.createdAt = t, !.challenge = 0, !.challengeType = "none"]

createSession(session, userId, username, t) ==
    [session EXCEPT !.userId = userId, !.username = username, !.createdAt = t,
                    !.challenge = 0, !.challengeType = "none"]

destroySession(session) == EmptySession

\* An expiry check that reports the timeout and leaves the session alone.
isSessionValid_NoDestroy(session, t) ==
    IF session.userId = 0 \/ session.createdAt = 0
    THEN [valid |-> FALSE, session |-> session]
    ELSE IF t - session.createdAt > ABSOLUTE_MAX_AGE
         THEN [valid |-> FALSE, session |-> session]
         ELSE [valid |-> TRUE, session |-> session]

\* A sliding session: every valid check renews createdAt.
isSessionValid_Sliding(session, t) ==
    IF session.userId = 0 \/ session.createdAt = 0
    THEN [valid |-> FALSE, session |-> session]
    ELSE IF t - session.createdAt > ABSOLUTE_MAX_AGE
         THEN [valid |-> FALSE, session |-> destroySession(session)]
         ELSE [valid |-> TRUE, session |-> [session EXCEPT !.createdAt = t]]

\* isSessionValid: [valid, session after the lazy expiry]
isSessionValid(session, t) ==
    IF session.userId = 0 \/ session.createdAt = 0
    THEN [valid |-> FALSE, session |-> session]
    ELSE IF t - session.createdAt > ABSOLUTE_MAX_AGE
         THEN [valid |-> FALSE, session |-> destroySession(session)]
         ELSE [valid |-> TRUE, session |-> session]

NoUser == [userId |-> 0, username |-> ""]

\* A getCurrentUser that trusts any session that names a user.
getCurrentUser_Unchecked(session, t) ==
    [user |-> IF session.userId = 0 THEN NoUser
              ELSE [userId |-> session.userId, username |-> session.username],
     session |-> session]

\* getCurrentUser: [user, session after the check]; user = NoUser is null
getCurrentUser(session, t) ==
    LET v == isSessionValid(session, t) IN
    [user |-> IF ~v.valid THEN NoUser
              ELSE [userId |-> v.session.userId, username |-> v.session.username],
     session |-> v.session]

\* A store that keeps a challenge the session already holds.
storeChallenge_KeepsPrior(session, challenge, userId, username) ==
    IF session.challenge # 0
    THEN session
    ELSE [session EXCEPT !.challenge = challenge, !.challengeType = "registration",
                         !.pendingUserId = userId, !.pendingUsername = username]

storeChallenge(session, challenge, userId, username) ==
    [session EXCEPT !.challenge = challenge, !.challengeType = "registration",
                    !.pendingUserId = userId, !.pendingUsername = username]

\* A store that begins the login from an anonymous session.
storeChallengeUsernameless_Anonymous(session, challenge) ==
    [EmptySession EXCEPT !.challenge = challenge, !.challengeType = "authentication"]

\* A store that keeps a challenge the session already holds.
storeChallengeUsernameless_KeepsPrior(session, challenge) ==
    IF session.challenge # 0
    THEN session
    ELSE [session EXCEPT !.challenge = challenge, !.challengeType = "authentication",
                         !.pendingUserId = 0, !.pendingUsername = ""]

storeChallengeUsernameless(session, challenge) ==
    [session EXCEPT !.challenge = challenge, !.challengeType = "authentication",
                    !.pendingUserId = 0, !.pendingUsername = ""]

\* A read that leaves the registration challenge in the session.
ClearedRegistration_Kept(session) == session

\* The session as getAndClearChallenge leaves it when it returns data.
ClearedRegistration(session) ==
    [session EXCEPT !.challenge = 0, !.challengeType = "none",
                    !.pendingUserId = 0, !.pendingUsername = ""]

\* A getAndClearChallenge that does not look at the challenge's type.
getAndClearChallenge_AnyType(session) ==
    IF session.challenge = 0
    THEN [found |-> FALSE, challenge |-> 0, userId |-> 0, username |-> "",
          session |-> session]
    ELSE [found |-> TRUE, challenge |-> session.challenge,
          userId |-> session.pendingUserId, username |-> session.pendingUsername,
          session |-> ClearedRegistration(session)]

\* getAndClearChallenge("registration"): found = FALSE is the null result, and
\* then the session is neither changed nor saved.
getAndClearChallenge(session) ==
    IF \/ session.challenge = 0
       \/ session.challengeType # "registration"
       \/ session.pendingUserId = 0
       \/ session.pendingUsername = ""
    THEN [found |-> FALSE, challenge |-> 0, userId |-> 0, username |-> "",
          session |-> session]
    ELSE [found |-> TRUE, challenge |-> session.challenge,
          userId |-> session.pendingUserId, username |-> session.pendingUsername,
          session |-> ClearedRegistration(session)]

\* A read that does not clear.
ClearedAuthentication_Kept(session) == session

ClearedAuthentication(session) ==
    [session EXCEPT !.challenge = 0, !.challengeType = "none"]

\* A usernameless read that hands out a challenge of any type.
getAndClearChallengeUsernameless_AnyType(session) ==
    IF session.challenge = 0
    THEN [found |-> FALSE, challenge |-> 0, session |-> session]
    ELSE [found |-> TRUE, challenge |-> session.challenge,
          session |-> ClearedAuthentication(session)]

getAndClearChallengeUsernameless(session) ==
    IF session.challenge = 0 \/ session.challengeType # "authentication"
    THEN [found |-> FALSE, challenge |-> 0, session |-> session]
    ELSE [found |-> TRUE, challenge |-> session.challenge,
          session |-> ClearedAuthentication(session)]

----------------------------------------------------------------------------
\* The store (schema: users, credentials).

NoCred == [owner |-> 0, counter |-> 0, lastUsedAt |-> 0, name |-> ""]

\* A uniqueness check that finds every name free.
UsernameTaken_Never(username) == FALSE

UsernameTaken(username) == \E u \in users : u.username = username

UserExists(userId) == \E u \in users : u.id = userId

CredsOf(userId) == {c \in CredIds : creds[c].owner = userId}

\* The users table without its unique index on username.
UsersInsertAllowed_NoUniqueIndex(userId, username) == ~UserExists(userId)

\* users.id is the primary key and users_username_unique indexes username:
\* an insert that breaks either raises SQLITE_CONSTRAINT.
UsersInsertAllowed(userId, username) ==
    /\ ~UserExists(userId)
    /\ ~UsernameTaken(username)

\* A credentials table whose id is no key: the insert replaces the row.
CredentialsInsertAllowed_NoPrimaryKey(credentialId, userId) == UserExists(userId)

\* credentials.id is the primary key; user_id references users(id).
CredentialsInsertAllowed(credentialId, userId) ==
    /\ creds[credentialId].owner = 0
    /\ UserExists(userId)

\* A rollback that deletes nothing.
UsersAfterDelete_Kept(userId) == users

\* DELETE FROM users WHERE id = userId, with ON DELETE cascade on credentials.
UsersAfterDelete(userId) == {u \in users : u.id # userId}

CredsAfterUserDelete(userId) ==
    [c \in CredIds |-> IF creds[c].owner = userId THEN NoCred ELSE creds[c]]

----------------------------------------------------------------------------
\* Requests.

IdleReq ==
    [op |-> "none", sess |-> "s1", pc |-> "done", res |-> "none", msg |-> "",
     session |-> EmptySession, ctxUid |-> 0, ctxName |-> "",
     uid |-> 0, uname |-> "", chal |-> 0, cid |-> "c1", n |-> 0, name |-> ""]

Free(r) == req[r].pc = "done"

\* The slot a new request takes.
FreeSlot == CHOOSE r \in Slots : Free(r) /\ \A q \in Slots : Free(q) => r <= q

Ops == {"registerStart", "registerFinish", "loginStart", "loginFinish",
        "addPasskeyStart", "addPasskeyFinish", "removeCredential", "logout"}

\* With the procedures only some scenarios call.
AllOps == Ops \cup {"renameCredential", "session"}

\* A profile router built from publicProcedure: only logout is protected.
Protected_AuthRouterOnly == {"logout"}

Protected == {"addPasskeyStart", "addPasskeyFinish", "removeCredential", "logout",
              "renameCredential", "getProfile", "updateDisplayName", "getCredentials"}

FirstPc(op) ==
    CASE op = "registerStart" -> "rsBody"
      [] op = "registerFinish" -> "rfChallenge"
      [] op = "loginStart" -> "lsBody"
      [] op = "loginFinish" -> "lfChallenge"
      [] op = "addPasskeyStart" -> "asBody"
      [] op = "addPasskeyFinish" -> "afChallenge"
      [] op = "removeCredential" -> "rmSelect"
      [] op = "logout" -> "loBody"
      [] op = "renameCredential" -> "rnSelect"
      [] op = "session" -> "seBody"
      [] op = "getProfile" -> "gpBody"
      [] op = "updateDisplayName" -> "udBody"
      [] op = "getCredentials" -> "gcBody"

\* A finished request leaves its operation and its result: "ok", or the
\* error's code and, where one code covers several errors, its message.
Failed(q, code, message) ==
    [IdleReq EXCEPT !.op = q.op, !.res = code, !.msg = message]

Finish(q, result) == Failed(q, result, "")

Starts == {"registerStart", "loginStart", "addPasskeyStart"}

\* createContext (getCurrentUser) and the protectedProcedure middleware: the
\* request decodes the cookie it carries; a protected procedure without a
\* valid session is rejected before its body runs. The random values a Start
\* will use (randomUUID, the options' challenge) are drawn here.
createContext(s, op, username, credentialId, name) ==
    LET draws == op \in Starts /\ (op = "registerStart" => usernameSchema(username)) IN
    /\ \E r \in Slots : Free(r)
    /\ draws => nextChal <= MaxChal
    /\ (draws /\ op = "registerStart") => nextUid <= MaxUsers
    /\ LET r == FreeSlot
           c == getCurrentUser(jar[s], now)
           q == [IdleReq EXCEPT !.op = op, !.sess = s, !.pc = FirstPc(op),
                                !.session = c.session,
                                !.ctxUid = c.user.userId,
                                !.ctxName = c.user.username,
                                !.uid = IF draws /\ op = "registerStart"
                                        THEN nextUid ELSE 0,
                                !.chal = IF draws THEN nextChal ELSE 0,
                                !.uname = username, !.cid = credentialId,
                                !.name = name]
           rejected == op \in Protected /\ c.user = NoUser
       IN /\ req' = [req EXCEPT ![r] =
                        IF rejected THEN Finish(q, "UNAUTHORIZED") ELSE q]
          /\ jar' = [jar EXCEPT ![s] = c.session]
          /\ nextChal' = IF draws /\ ~rejected THEN nextChal + 1 ELSE nextChal
          /\ nextUid' = IF draws /\ op = "registerStart" THEN nextUid + 1 ELSE nextUid
    /\ UNCHANGED <<users, creds, now, consumed>>

\* A request arrives: one of the clients, one of the procedures, any input
\* among usernames and names. serial: the client waits for the response
\* before its next request.
RequestAs(sessions, ops, serial, usernames, names) ==
    \E s \in sessions, op \in ops :
        /\ serial => \A r \in Slots : Free(r) \/ req[r].sess # s
        /\ \E username \in (IF op = "registerStart" THEN usernames ELSE {""}),
              credentialId \in (IF op \in {"removeCredential", "renameCredential"}
                                THEN CredIds ELSE {"c1"}),
              name \in (IF op \in {"renameCredential", "updateDisplayName"}
                        THEN names ELSE {""}) :
               createContext(s, op, username, credentialId, name)

Request(sessions, ops, serial) ==
    RequestAs(sessions, ops, serial, Usernames, CredentialNames)

At(r, op, pc) == req[r].op = op /\ req[r].pc = pc

Save(r, session) == jar' = [jar EXCEPT ![req[r].sess] = session]

----------------------------------------------------------------------------
\* Registration (authRouter.registerStart/registerFinish, services, fido2).

\* A registerStart whose input has no schema.
registerStart_NoSchema(r) ==
    /\ At(r, "registerStart", "rsBody")
    /\ LET q == req[r] IN
       IF UsernameTaken(q.uname)
       THEN /\ req' = [req EXCEPT ![r] = Finish(q, "USERNAME_TAKEN")]
            /\ UNCHANGED jar
       ELSE LET session == storeChallenge(q.session, q.chal, q.uid, q.uname) IN
            /\ Save(r, session)
            /\ req' = [req EXCEPT ![r] = Finish(q, "ok")]
    /\ UNCHANGED <<users, creds, nextUid, nextChal, now, consumed>>

registerStart(r) ==
    /\ At(r, "registerStart", "rsBody")
    /\ LET q == req[r] IN
       IF ~usernameSchema(q.uname)
       THEN /\ req' = [req EXCEPT ![r] = Finish(q, "BAD_REQUEST")]
            /\ UNCHANGED jar
       ELSE IF UsernameTaken(q.uname)
       THEN /\ req' = [req EXCEPT ![r] = Finish(q, "USERNAME_TAKEN")]
            /\ UNCHANGED jar
       ELSE LET session == storeChallenge(q.session, q.chal, q.uid, q.uname) IN
            /\ Save(r, session)
            /\ req' = [req EXCEPT ![r] = Finish(q, "ok")]
    /\ UNCHANGED <<users, creds, nextUid, nextChal, now, consumed>>

\* registerFinish: getAndClearChallenge("registration")
registerFinishChallenge(r) ==
    /\ At(r, "registerFinish", "rfChallenge")
    /\ LET q == req[r]
           d == getAndClearChallenge(q.session) IN
       IF ~d.found
       THEN /\ req' = [req EXCEPT ![r] = Finish(q, "NO_CHALLENGE")]
            /\ UNCHANGED <<jar, consumed>>
       ELSE /\ Save(r, d.session)
            /\ consumed' = [consumed EXCEPT ![d.challenge] = @ + 1]
            /\ req' = [req EXCEPT ![r] =
                          [q EXCEPT !.session = d.session, !.chal = d.challenge,
                                    !.uid = d.userId, !.uname = d.username,
                                    !.pc = "rfSelect"]]
    /\ UNCHANGED <<users, creds, nextUid, nextChal, now>>

\* A registerFinish that relies on registerStart's check alone.
registerFinishSelect_NoRecheck(r) ==
    /\ At(r, "registerFinish", "rfSelect")
    /\ req' = [req EXCEPT ![r] = [req[r] EXCEPT !.pc = "rfInsertUser"]]
    /\ UNCHANGED <<users, creds, jar, nextUid, nextChal, now, consumed>>

\* registerFinish: the second check that the username is free
registerFinishSelect(r) ==
    /\ At(r, "registerFinish", "rfSelect")
    /\ req' = [req EXCEPT ![r] =
                  IF UsernameTaken(req[r].uname)
                  THEN Finish(req[r], "USERNAME_TAKEN")
                  ELSE [req[r] EXCEPT !.pc = "rfInsertUser"]]
    /\ UNCHANGED <<users, creds, jar, nextUid, nextChal, now, consumed>>

\* A registerFinish that leaves the user row to be written later.
registerFinishInsertUser_Skipped(r) ==
    /\ At(r, "registerFinish", "rfInsertUser")
    /\ req' = [req EXCEPT ![r] = [req[r] EXCEPT !.pc = "rfVerify"]]
    /\ UNCHANGED <<users, creds, jar, nextUid, nextChal, now, consumed>>

\* A registerFinish whose user insert is inside the try block: a failed
\* insert runs the rollback too.
registerFinishInsertUser_InsideTry(r) ==
    /\ At(r, "registerFinish", "rfInsertUser")
    /\ LET q == req[r] IN
       IF UsersInsertAllowed(q.uid, q.uname)
       THEN /\ users' = users \cup {[id |-> q.uid, username |-> q.uname]}
            /\ req' = [req EXCEPT ![r] = [q EXCEPT !.pc = "rfVerify"]]
       ELSE /\ req' = [req EXCEPT ![r] = [q EXCEPT !.pc = "rfRollback"]]
            /\ UNCHANGED users
    /\ UNCHANGED <<creds, jar, nextUid, nextChal, now, consumed>>

\* registerFinish: db.insert(users), outside the try block
registerFinishInsertUser(r) ==
    /\ At(r, "registerFinish", "rfInsertUser")
    /\ LET q == req[r] IN
       IF UsersInsertAllowed(q.uid, q.uname)
       THEN /\ users' = users \cup {[id |-> q.uid, username |-> q.uname]}
            /\ req' = [req EXCEPT ![r] = [q EXCEPT !.pc = "rfVerify"]]
       ELSE /\ req' = [req EXCEPT ![r] = Finish(q, "SQLITE_CONSTRAINT")]
            /\ UNCHANGED users
    /\ UNCHANGED <<creds, jar, nextUid, nextChal, now, consumed>>

\* generatePasskeyName: `Passkey ${count + 1}`
generatePasskeyName(userId) ==
    "Passkey " \o ToString(Cardinality(CredsOf(userId)) + 1)

\* verifyAndStoreRegistration up to the insert: verifyRegistrationResponse
\* (its verdict and the credential id come with the response), then the name.
registerFinishVerify(r) ==
    /\ At(r, "registerFinish", "rfVerify")
    /\ \E verified \in BOOLEAN, credentialId \in CredIds :
        req' = [req EXCEPT ![r] =
                   IF verified
                   THEN [req[r] EXCEPT !.cid = credentialId,
                                       !.name = generatePasskeyName(req[r].uid),
                                       !.pc = "rfInsertCred"]
                   ELSE [req[r] EXCEPT !.pc = "rfRollback"]]
    /\ UNCHANGED <<users, creds, jar, nextUid, nextChal, now, consumed>>

NewCredential(userId, name, counter) ==
    [owner |-> userId, counter |-> counter, lastUsedAt |-> 0, name |-> name]

\* verifyAndStoreRegistration: db.insert(credentials); a constraint failure
\* is thrown into registerFinish's catch block
registerFinishInsertCred(r) ==
    /\ At(r, "registerFinish", "rfInsertCred")
    /\ LET q == req[r] IN
       IF CredentialsInsertAllowed(q.cid, q.uid)
       THEN /\ \E counter \in 0..MaxCounter :
                 creds' = [creds EXCEPT ![q.cid] = NewCredential(q.uid, q.name, counter)]
            /\ req' = [req EXCEPT ![r] = [q EXCEPT !.pc = "rfCreateSession"]]
       ELSE /\ req' = [req EXCEPT ![r] = [q EXCEPT !.pc = "rfRollback"]]
            /\ UNCHANGED creds
    /\ UNCHANGED <<users, jar, nextUid, nextChal, now, consumed>>

\* registerFinish's catch block: the compensating delete
registerFinishRollback(r) ==
    /\ At(r, "registerFinish", "rfRollback")
    /\ users' = UsersAfterDelete(req[r].uid)
    /\ creds' = CredsAfterUserDelete(req[r].uid)
    /\ req' = [req EXCEPT ![r] = Finish(req[r], "REGISTRATION_FAILED")]
    /\ UNCHANGED <<jar, nextUid, nextChal, now, consumed>>

\* authRouter.registerFinish: createSession(userId, username)
registerFinishCreateSession(r) ==
    /\ At(r, "registerFinish", "rfCreateSession")
    /\ LET q == req[r] IN
       /\ Save(r, createSession(q.session, q.uid, q.uname, now))
       /\ req' = [req EXCEPT ![r] = Finish(q, "ok")]
    /\ UNCHANGED <<users, creds, nextUid, nextChal, now, consumed>>

----------------------------------------------------------------------------
\* Authentication (authRouter.loginStart/loginFinish, verifyAuthentication).

loginStart(r) ==
    /\ At(r, "loginStart", "lsBody")
    /\ Save(r, storeChallengeUsernameless(req[r].session, req[r].chal))
    /\ req' = [req EXCEPT ![r] = Finish(req[r], "ok")]
    /\ UNCHANGED <<users, creds, nextUid, nextChal, now, consumed>>

\* A loginFinish that saves the session also when it found no challenge.
loginFinishChallenge_SavesOnNull(r) ==
    /\ At(r, "loginFinish", "lfChallenge")
    /\ LET q == req[r]
           d == getAndClearChallengeUsernameless(q.session) IN
       IF ~d.found
       THEN /\ req' = [req EXCEPT ![r] = Finish(q, "NO_CHALLENGE")]
            /\ Save(r, d.session)
            /\ UNCHANGED consumed
       ELSE /\ Save(r, d.session)
            /\ consumed' = [consumed EXCEPT ![d.challenge] = @ + 1]
            /\ req' = [req EXCEPT ![r] =
                          [q EXCEPT !.session = d.session, !.chal = d.challenge,
                                    !.pc = "lfSelect"]]
    /\ UNCHANGED <<users, creds, nextUid, nextChal, now>>

\* loginFinish: getAndClearChallengeUsernameless()
loginFinishChallenge(r) ==
    /\ At(r, "loginFinish", "lfChallenge")
    /\ LET q == req[r]
           d == getAndClearChallengeUsernameless(q.session) IN
       IF ~d.found
       THEN /\ req' = [req EXCEPT ![r] = Finish(q, "NO_CHALLENGE")]
            /\ UNCHANGED <<jar, consumed>>
       ELSE /\ Save(r, d.session)
            /\ consumed' = [consumed EXCEPT ![d.challenge] = @ + 1]
            /\ req' = [req EXCEPT ![r] =
                          [q EXCEPT !.session = d.session, !.chal = d.challenge,
                                    !.pc = "lfSelect"]]
    /\ UNCHANGED <<users, creds, nextUid, nextChal, now>>

\* A lookup that returns some user's name.
UsernameOf_AnyUser(userId) == (CHOOSE u \in users : TRUE).username

UsernameOf(userId) == (CHOOSE u \in users : u.id = userId).username

\* A lookup that lets a response naming no stored credential proceed.
loginFinishSelect_UnknownAccepted(r) ==
    /\ At(r, "loginFinish", "lfSelect")
    /\ \E credentialId \in CredIds :
        LET q == req[r]
            credential == creds[credentialId] IN
        req' = [req EXCEPT ![r] =
                   [q EXCEPT !.cid = credentialId, !.uid = credential.owner,
                             !.uname = IF credential.owner = 0 THEN ""
                                       ELSE UsernameOf(credential.owner),
                             !.n = credential.counter, !.pc = "lfVerify"]]
    /\ UNCHANGED <<users, creds, jar, nextUid, nextChal, now, consumed>>

\* verifyAuthentication: the credential named by the response and its owner
\* are read; the request keeps the counter it read.
loginFinishSelect(r) ==
    /\ At(r, "loginFinish", "lfSelect")
    /\ \E credentialId \in CredIds :
        LET q == req[r]
            credential == creds[credentialId] IN
        req' = [req EXCEPT ![r] =
                   IF credential.owner = 0 \/ ~UserExists(credential.owner)
                   THEN Failed(q, "AUTHENTICATION_FAILED",
                               IF credential.owner = 0 THEN "Credential not found"
                               ELSE "User not found")
                   ELSE [q EXCEPT !.cid = credentialId, !.uid = credential.owner,
                                  !.uname = UsernameOf(credential.owner),
                                  !.n = credential.counter, !.pc = "lfVerify"]]
    /\ UNCHANGED <<users, creds, jar, nextUid, nextChal, now, consumed>>

\* The counter rule of verifyAuthenticationResponse: a response counter that
\* does not exceed the stored one is refused unless both are 0.
CounterAccepted(stored, counter) ==
    ~((counter > 0 \/ stored > 0) /\ counter <= stored)

\* UPDATE credentials SET counter = newCounter, last_used_at = now WHERE id
CredsAfterLogin(credentialId, newCounter, t) ==
    IF creds[credentialId].owner = 0
    THEN creds
    ELSE [creds EXCEPT ![credentialId].counter = newCounter,
                       ![credentialId].lastUsedAt = t]

\* A verification that writes the response's counter before it checks it.
loginFinishVerify_WritesFirst(r) ==
    /\ At(r, "loginFinish", "lfVerify")
    /\ \E signatureOk \in BOOLEAN, counter \in 0..MaxCounter :
        LET q == req[r] IN
        /\ creds' = CredsAfterLogin(q.cid, counter, now)
        /\ req' = [req EXCEPT ![r] =
                      IF signatureOk /\ CounterAccepted(q.n, counter)
                      THEN [q EXCEPT !.n = counter, !.pc = "lfUpdate"]
                      ELSE Failed(q, "AUTHENTICATION_FAILED",
                                  "Authentication verification failed")]
    /\ UNCHANGED <<users, jar, nextUid, nextChal, now, consumed>>

\* verifyAuthentication: verifyAuthenticationResponse against the credential
\* as it was read
loginFinishVerify(r) ==
    /\ At(r, "loginFinish", "lfVerify")
    /\ \E signatureOk \in BOOLEAN, counter \in 0..MaxCounter :
        LET q == req[r] IN
        req' = [req EXCEPT ![r] =
                   IF signatureOk /\ CounterAccepted(q.n, counter)
                   THEN [q EXCEPT !.n = counter, !.pc = "lfUpdate"]
                   ELSE Failed(q, "AUTHENTICATION_FAILED",
                               "Authentication verification failed")]
    /\ UNCHANGED <<users, creds, jar, nextUid, nextChal, now, consumed>>

loginFinishUpdate(r) ==
    /\ At(r, "loginFinish", "lfUpdate")
    /\ creds' = CredsAfterLogin(req[r].cid, req[r].n, now)
    /\ req' = [req EXCEPT ![r] = [req[r] EXCEPT !.pc = "lfCreateSession"]]
    /\ UNCHANGED <<users, jar, nextUid, nextChal, now, consumed>>

loginFinishCreateSession(r) ==
    /\ At(r, "loginFinish", "lfCreateSession")
    /\ LET q == req[r] IN
       /\ Save(r, createSession(q.session, q.uid, q.uname, now))
       /\ req' = [req EXCEPT ![r] = Finish(q, "ok")]
    /\ UNCHANGED <<users, creds, nextUid, nextChal, now, consumed>>

\* authRouter.session: the user of the context
sessionQuery(r) ==
    /\ At(r, "session", "seBody")
    /\ req' = [req EXCEPT ![r] =
                  IF req[r].ctxUid = 0 THEN Finish(req[r], "null")
                  ELSE Failed(req[r], "user", req[r].ctxName)]
    /\ UNCHANGED <<users, creds, jar, nextUid, nextChal, now, consumed>>

\* Date.now() advances by an hour.
Tick ==
    /\ now < MaxNow
    /\ now' = now + 1
    /\ UNCHANGED <<users, creds, jar, req, nextUid, nextChal, consumed>>

\* authRouter.logout: destroySession()
logout(r) ==
    /\ At(r, "logout", "loBody")
    /\ Save(r, destroySession(req[r].session))
    /\ req' = [req EXCEPT ![r] = Finish(req[r], "ok")]
    /\ UNCHANGED <<users, creds, nextUid, nextChal, now, consumed>>

----------------------------------------------------------------------------
\* Credential lifecycle (profileRouter, services, fido2).

addPasskeyStart(r) ==
    /\ At(r, "addPasskeyStart", "asBody")
    /\ LET q == req[r] IN
       /\ Save(r, storeChallenge(q.session, q.chal, q.ctxUid, q.ctxName))
       /\ req' = [req EXCEPT ![r] = Finish(q, "ok")]
    /\ UNCHANGED <<users, creds, nextUid, nextChal, now, consumed>>

\* An addPasskeyFinish that accepts any registration challenge.
addPasskeyFinishChallenge_NoUserCheck(r) ==
    /\ At(r, "addPasskeyFinish", "afChallenge")
    /\ LET q == req[r]
           d == getAndClearChallenge(q.session) IN
       IF ~d.found
       THEN /\ req' = [req EXCEPT ![r] = Finish(q, "NO_CHALLENGE")]
            /\ UNCHANGED <<jar, consumed>>
       ELSE /\ Save(r, d.session)
            /\ consumed' = [consumed EXCEPT ![d.challenge] = @ + 1]
            /\ req' = [req EXCEPT ![r] =
                          [q EXCEPT !.session = d.session,
                                    !.chal = d.challenge, !.uid = q.ctxUid,
                                    !.pc = "afVerify"]]
    /\ UNCHANGED <<users, creds, nextUid, nextChal, now>>

\* addPasskeyFinish: getAndClearChallenge, then the check that the challenge
\* was issued for the caller
addPasskeyFinishChallenge(r) ==
    /\ At(r, "addPasskeyFinish", "afChallenge")
    /\ LET q == req[r]
           d == getAndClearChallenge(q.session) IN
       IF ~d.found
       THEN /\ req' = [req EXCEPT ![r] = Finish(q, "NO_CHALLENGE")]
            /\ UNCHANGED <<jar, consumed>>
       ELSE /\ Save(r, d.session)
            /\ consumed' = [consumed EXCEPT ![d.challenge] = @ + 1]
            /\ req' = [req EXCEPT ![r] =
                          IF d.userId # q.ctxUid
                          THEN Finish(q, "CHALLENGE_NOT_FOR_USER")
                          ELSE [q EXCEPT !.session = d.session,
                                         !.chal = d.challenge, !.uid = q.ctxUid,
                                         !.pc = "afVerify"]]
    /\ UNCHANGED <<users, creds, nextUid, nextChal, now>>

addPasskeyFinishVerify(r) ==
    /\ At(r, "addPasskeyFinish", "afVerify")
    /\ \E verified \in BOOLEAN, credentialId \in CredIds :
        req' = [req EXCEPT ![r] =
                   IF verified
                   THEN [req[r] EXCEPT !.cid = credentialId,
                                       !.name = generatePasskeyName(req[r].uid),
                                       !.pc = "afInsertCred"]
                   ELSE Finish(req[r], "REGISTRATION_FAILED")]
    /\ UNCHANGED <<users, creds, jar, nextUid, nextChal, now, consumed>>

addPasskeyFinishInsertCred(r) ==
    /\ At(r, "addPasskeyFinish", "afInsertCred")
    /\ LET q == req[r] IN
       IF CredentialsInsertAllowed(q.cid, q.uid)
       THEN /\ \E counter \in 0..MaxCounter :
                 creds' = [creds EXCEPT ![q.cid] = NewCredential(q.uid, q.name, counter)]
            /\ req' = [req EXCEPT ![r] = Finish(q, "ok")]
       ELSE /\ req' = [req EXCEPT ![r] = Finish(q, "REGISTRATION_FAILED")]
            /\ UNCHANGED creds
    /\ UNCHANGED <<users, jar, nextUid, nextChal, now, consumed>>

\* A check that looks the credential up among all users' credentials.
deleteCredentialCheck_AnyOwner(userId, credentialId) ==
    IF Cardinality(CredsOf(userId)) <= 1
    THEN [error |-> TRUE, message |-> "Cannot delete the only credential"]
    ELSE IF creds[credentialId].owner = 0
         THEN [error |-> TRUE, message |-> "Credential not found"]
         ELSE [error |-> FALSE, message |-> ""]

\* deleteCredential up to the delete: [error, message]; error = FALSE lets the
\* delete run. Both errors are plain Errors.
deleteCredentialCheck(userId, credentialId) ==
    LET credentials == CredsOf(userId) IN
    IF Cardinality(credentials) <= 1
    THEN [error |-> TRUE, message |-> "Cannot delete the only credential"]
    ELSE IF credentialId \notin credentials
         THEN [error |-> TRUE, message |-> "Credential not found"]
         ELSE [error |-> FALSE, message |-> ""]

\* services.removeCredential: an error that is no AuthError becomes
\* AuthError("CREDENTIAL_NOT_FOUND", message)
removeCredentialCode(message) == "CREDENTIAL_NOT_FOUND"

removeCredentialSelect(r) ==
    /\ At(r, "removeCredential", "rmSelect")
    /\ LET q == req[r]
           c == deleteCredentialCheck(q.ctxUid, q.cid) IN
       req' = [req EXCEPT ![r] =
                  IF c.error
                  THEN Failed(q, removeCredentialCode(c.message), c.message)
                  ELSE [q EXCEPT !.pc = "rmDelete"]]
    /\ UNCHANGED <<users, creds, jar, nextUid, nextChal, now, consumed>>

\* A delete that names the owner instead of the credential.
CredsAfterDelete_ByOwner(credentialId) ==
    [c \in CredIds |->
        IF creds[c].owner = creds[credentialId].owner THEN NoCred ELSE creds[c]]

\* DELETE FROM credentials WHERE id = credentialId
CredsAfterDelete(credentialId) == [creds EXCEPT ![credentialId] = NoCred]

removeCredentialDelete(r) ==
    /\ At(r, "removeCredential", "rmDelete")
    /\ creds' = CredsAfterDelete(req[r].cid)
    /\ req' = [req EXCEPT ![r] = Finish(req[r], "ok")]
    /\ UNCHANGED <<users, jar, nextUid, nextChal, now, consumed>>

\* renameCredential: the name is validated, then the credential is read and
\* must be the caller's. The error is a plain Error, wrapped by the service.
renameCredentialSelect(r) ==
    /\ At(r, "renameCredential", "rnSelect")
    /\ LET q == req[r] IN
       req' = [req EXCEPT ![r] =
                  IF ~credentialNameSchema(q.name)
                  THEN Finish(q, "BAD_REQUEST")
                  ELSE IF creds[q.cid].owner = 0 \/ creds[q.cid].owner # q.ctxUid
                  THEN Failed(q, "CREDENTIAL_NOT_FOUND",
                              "Credential not found or does not belong to user")
                  ELSE [q EXCEPT !.pc = "rnUpdate"]]
    /\ UNCHANGED <<users, creds, jar, nextUid, nextChal, now, consumed>>

\* An update that names the owner instead of the credential.
CredsAfterRename_ByOwner(credentialId, newName) ==
    [c \in CredIds |->
        IF creds[c].owner # 0 /\ creds[c].owner = creds[credentialId].owner
        THEN [creds[c] EXCEPT !.name = newName]
        ELSE creds[c]]

\* A rename that rewrites the row as a new credential.
CredsAfterRename_ResetsUse(credentialId, newName) ==
    [c \in CredIds |->
        IF c = credentialId /\ creds[c].owner # 0
        THEN [creds[c] EXCEPT !.name = newName, !.counter = 0, !.lastUsedAt = 0]
        ELSE creds[c]]

\* UPDATE credentials SET name = newName WHERE id = credentialId
CredsAfterRename(credentialId, newName) ==
    IF creds[credentialId].owner = 0
    THEN creds
    ELSE [creds EXCEPT ![credentialId].name = newName]

renameCredentialUpdate(r) ==
    /\ At(r, "renameCredential", "rnUpdate")
    /\ creds' = CredsAfterRename(req[r].cid, req[r].name)
    /\ req' = [req EXCEPT ![r] = Finish(req[r], "ok")]
    /\ UNCHANGED <<users, jar, nextUid, nextChal, now, consumed>>

----------------------------------------------------------------------------
\* Profile (profileRouter.get, updateDisplayName, getCredentials).

\* profileRouter.get: SELECT ... FROM users WHERE id = ctx.user.userId; the
\* response carries the row, here its username.
getProfile(r) ==
    /\ At(r, "getProfile", "gpBody")
    /\ LET q == req[r] IN
       req' = [req EXCEPT ![r] =
                  IF ~UserExists(q.ctxUid)
                  THEN Failed(q, "NOT_FOUND", "User not found")
                  ELSE Failed(q, "ok",
                              (CHOOSE u \in users : u.id = q.ctxUid).username)]
    /\ UNCHANGED <<users, creds, jar, nextUid, nextChal, now, consumed>>

\* updateDisplayName's input: z.string().min(1).max(100)
displayNameSchema(displayName) == Len(displayName) >= 1 /\ Len(displayName) <= 100

\* UPDATE users SET displayName, updatedAt WHERE id = userId: the columns id
\* and username, which are the user rows here, keep their values.
UsersAfterDisplayName(userId, displayName) ==
    {[id |-> u.id, username |-> u.username] : u \in users}

updateDisplayName(r) ==
    /\ At(r, "updateDisplayName", "udBody")
    /\ LET q == req[r] IN
       IF ~displayNameSchema(q.name)
       THEN /\ req' = [req EXCEPT ![r] = Finish(q, "BAD_REQUEST")]
            /\ UNCHANGED users
       ELSE /\ users' = UsersAfterDisplayName(q.ctxUid, q.name)
            /\ req' = [req EXCEPT ![r] = Finish(q, "ok")]
    /\ UNCHANGED <<creds, jar, nextUid, nextChal, now, consumed>>

\* profileRouter.getCredentials: getUserCredentials(ctx.user.userId); the
\* response lists the rows, here their number.
getCredentials(r) ==
    /\ At(r, "getCredentials", "gcBody")
    /\ req' = [req EXCEPT ![r] =
                  [Finish(req[r], "ok") EXCEPT
                      !.n = Cardinality(CredsOf(req[r].ctxUid))]]
    /\ UNCHANGED <<users, creds, jar, nextUid, nextChal, now, consumed>>

----------------------------------------------------------------------------

Init ==
    /\ users = {}
    /\ creds = [c \in CredIds |-> NoCred]
    /\ jar = [s \in Sessions |-> EmptySession]
    /\ req = [r \in Slots |-> IdleReq]
    /\ nextUid = 1
    /\ nextChal = 1
    /\ now = 1
    /\ consumed = [c \in Challenges |-> 0]

RegisterStep ==
    \E r \in Slots :
        \/ registerStart(r)
        \/ registerFinishChallenge(r)
        \/ registerFinishSelect(r)
        \/ registerFinishInsertUser(r)
        \/ registerFinishVerify(r)
        \/ registerFinishInsertCred(r)
        \/ registerFinishRollback(r)
        \/ registerFinishCreateSession(r)

LoginStep ==
    \E r \in Slots :
        \/ loginStart(r)
        \/ loginFinishChallenge(r)
        \/ loginFinishSelect(r)
        \/ loginFinishVerify(r)
        \/ loginFinishUpdate(r)
        \/ loginFinishCreateSession(r)
        \/ logout(r)

CredentialStep ==
    \E r \in Slots :
        \/ addPasskeyStart(r)
        \/ addPasskeyFinishChallenge(r)
        \/ addPasskeyFinishVerify(r)
        \/ addPasskeyFinishInsertCred(r)
        \/ removeCredentialSelect(r)
        \/ removeCredentialDelete(r)

RenameStep ==
    \E r \in Slots : renameCredentialSelect(r) \/ renameCredentialUpdate(r)

SessionStep == \E r \in Slots : sessionQuery(r)

Next ==
    \/ RequestAs(Sessions, AllOps, FALSE, Usernames \cup BadUsernames, CredentialNames)
    \/ RegisterStep
    \/ LoginStep
    \/ CredentialStep
    \/ RenameStep
    \/ SessionStep
    \/ Tick

Spec == Init /\ [][Next]_vars

RegisterOps == {"registerStart", "registerFinish"}

RegisterNext == Request(Sessions, RegisterOps, FALSE) \/ RegisterStep

\* Registration alone, from the empty store.
RegisterSpec == Init /\ [][RegisterNext]_vars

\* The session and the credential a successful registration leaves behind.
SessionOf(userId, username) == createSession(EmptySession, userId, username, 1)

\* After alice registered from client s1 (challenge 1, credential c1).
InitAlice ==
    /\ users = {[id |-> 1, username |-> "alice"]}
    /\ \E counter \in 0..1 :
        creds = [c \in CredIds |->
                    IF c = "c1" THEN NewCredential(1, "Passkey 1", counter) ELSE NoCred]
    /\ jar = [s \in Sessions |->
                 IF s = "s1" THEN SessionOf(1, "alice") ELSE EmptySession]
    /\ req = [r \in Slots |-> IdleReq]
    /\ nextUid = 2
    /\ nextChal = 2
    /\ now = 1
    /\ consumed = [c \in Challenges |-> IF c = 1 THEN 1 ELSE 0]

\* After alice registered from s1 and bob from s2 (credentials c1 and c2).
InitAliceBob ==
    /\ users = {[id |-> 1, username |-> "alice"], [id |-> 2, username |-> "bob"]}
    /\ creds = [c \in CredIds |->
                   IF c = "c1" THEN NewCredential(1, "Passkey 1", 0)
                   ELSE IF c = "c2" THEN NewCredential(2, "Passkey 1", 0) ELSE NoCred]
    /\ jar = [s \in Sessions |->
                 IF s = "s1" THEN SessionOf(1, "alice") ELSE SessionOf(2, "bob")]
    /\ req = [r \in Slots |-> IdleReq]
    /\ nextUid = 3
    /\ nextChal = 3
    /\ now = 1
    /\ consumed = [c \in Challenges |-> IF c <= 2 THEN 1 ELSE 0]

LoginOps == {"loginStart", "loginFinish", "logout"}

LoginNext == Request(Sessions, LoginOps, FALSE) \/ LoginStep

\* Logins and logouts of a registered user, from two clients.
LoginSpec == InitAlice /\ [][LoginNext]_vars

CredentialOps == {"addPasskeyStart", "addPasskeyFinish", "removeCredential"}

CredentialNext == Request(Sessions, CredentialOps, FALSE) \/ CredentialStep

\* Two logged-in users adding and removing passkeys.
CredentialSpec == InitAliceBob /\ [][CredentialNext]_vars

SerialNext ==
    \/ Request({"s1"}, Ops, TRUE)
    \/ RegisterStep
    \/ LoginStep
    \/ CredentialStep

\* Every procedure, called by one client that waits for each response before
\* its next request.
SerialSpec == Init /\ [][SerialNext]_vars

TimeOps == {"session", "loginStart", "loginFinish", "addPasskeyStart"}

TimeNext ==
    \/ Request({"s1"}, TimeOps, TRUE)
    \/ \E r \in Slots :
        \/ sessionQuery(r)
        \/ loginStart(r)
        \/ loginFinishChallenge(r)
        \/ loginFinishSelect(r)
        \/ loginFinishVerify(r)
        \/ loginFinishUpdate(r)
        \/ loginFinishCreateSession(r)
        \/ addPasskeyStart(r)
    \/ Tick

\* A logged-in client over the hours: it asks who it is, starts adding a
\* passkey, logs in again, one request at a time; it never logs out.
TimeSpec == InitAlice /\ [][TimeNext]_vars

\* Session blobs with any of the identity fields absent or present.
AnySession ==
    {[EmptySession EXCEPT !.userId = userId, !.username = username,
                          !.createdAt = createdAt] :
        userId \in {0, 1}, username \in {"", "alice"}, createdAt \in {0, 1, 2}}

InitAnySession ==
    /\ users = {[id |-> 1, username |-> "alice"]}
    /\ creds = [c \in CredIds |->
                   IF c = "c1" THEN NewCredential(1, "Passkey 1", 0) ELSE NoCred]
    /\ jar \in [Sessions -> AnySession]
    /\ req = [r \in Slots |-> IdleReq]
    /\ nextUid = 2
    /\ nextChal = 2
    /\ now = 1
    /\ consumed = [c \in Challenges |-> IF c = 1 THEN 1 ELSE 0]

SessionCheckOps == {"session", "logout"}

SessionCheckNext ==
    \/ Request(Sessions, SessionCheckOps, FALSE)
    \/ \E r \in Slots : sessionQuery(r) \/ logout(r)
    \/ Tick

\* The session checks applied, over the hours, to cookies of every shape.
SessionCheckSpec == InitAnySession /\ [][SessionCheckNext]_vars

RegisterStartOps == {"registerStart", "loginStart"}

RegisterStartNext ==
    \/ RequestAs(Sessions, RegisterStartOps, FALSE, Usernames \cup BadUsernames, {""})
    \/ \E r \in Slots : registerStart(r) \/ loginStart(r)
    \/ Tick

\* Ceremonies started, over the hours, with usernames of every kind, while
\* alice is registered.
RegisterStartSpec == InitAlice /\ [][RegisterStartNext]_vars

RenameOps == CredentialOps \cup {"renameCredential"}

RenameNext == Request(Sessions, RenameOps, FALSE) \/ CredentialStep \/ RenameStep

\* Two logged-in users adding, renaming and removing passkeys.
RenameSpec == InitAliceBob /\ [][RenameNext]_vars

ProfileStep ==
    \E r \in Slots : getProfile(r) \/ updateDisplayName(r) \/ getCredentials(r)

\* Two users registered at hour 1, some hours later: alice from s1, bob
\* from s2.
InitAliceBobLate ==
    /\ users = {[id |-> 1, username |-> "alice"], [id |-> 2, username |-> "bob"]}
    /\ creds = [c \in CredIds |->
                   IF c = "c1" THEN NewCredential(1, "Passkey 1", 0)
                   ELSE IF c = "c2" THEN NewCredential(2, "Passkey 1", 0) ELSE NoCred]
    /\ jar = [s \in Sessions |->
                 IF s = "s1" THEN SessionOf(1, "alice") ELSE SessionOf(2, "bob")]
    /\ req = [r \in Slots |-> IdleReq]
    /\ nextUid = 3
    /\ nextChal = 3
    /\ now = ABSOLUTE_MAX_AGE
    /\ consumed = [c \in Challenges |-> IF c <= 2 THEN 1 ELSE 0]

ProfileOps ==
    {"logout", "getProfile", "updateDisplayName", "getCredentials",
     "addPasskeyStart", "addPasskeyFinish", "removeCredential", "renameCredential"}

ProfileNext ==
    \/ /\ \A r \in Slots : Free(r)
       /\ RequestAs(Sessions, ProfileOps, TRUE, Usernames, CredentialNames)
    \/ CredentialStep
    \/ RenameStep
    \/ ProfileStep
    \/ \E r \in Slots : logout(r)
    \/ Tick

\* Every protected procedure, called by two clients whose sessions end by
\* logout or by age, one request at a time.
ProfileSpec == InitAliceBobLate /\ [][ProfileNext]_vars

\* InitAlice some hours later: the session of hour 1 is near its end.
InitAliceLate ==
    /\ users = {[id |-> 1, username |-> "alice"]}
    /\ \E counter \in 0..1 :
        creds = [c \in CredIds |->
                    IF c = "c1" THEN NewCredential(1, "Passkey 1", counter) ELSE NoCred]
    /\ jar = [s \in Sessions |->
                 IF s = "s1" THEN SessionOf(1, "alice") ELSE EmptySession]
    /\ req = [r \in Slots |-> IdleReq]
    /\ nextUid = 2
    /\ nextChal = 2
    /\ now = ABSOLUTE_MAX_AGE
    /\ consumed = [c \in Challenges |-> IF c = 1 THEN 1 ELSE 0]

LifetimeOps == {"loginStart", "loginFinish", "registerStart", "addPasskeyStart",
                "addPasskeyFinish", "renameCredential", "removeCredential"}

LifetimeNext ==
    \/ Request({"s1"}, LifetimeOps, TRUE)
    \/ \E r \in Slots : registerStart(r)
    \/ \E r \in Slots :
        \/ loginStart(r)
        \/ loginFinishChallenge(r)
        \/ loginFinishSelect(r)
        \/ loginFinishVerify(r)
        \/ loginFinishUpdate(r)
        \/ loginFinishCreateSession(r)
    \/ CredentialStep
    \/ RenameStep
    \/ Tick

\* A logged-in client over the hours: it starts ceremonies, logs in again,
\* adds, renames and removes passkeys, one request at a time.
LifetimeSpec == InitAliceLate /\ [][LifetimeNext]_vars

FrameNext ==
    \/ RequestAs({"s1"}, AllOps, TRUE, Usernames, {"My Phone"})
    \/ RegisterStep
    \/ LoginStep
    \/ CredentialStep
    \/ RenameStep
    \/ SessionStep

\* The ceremonies, the session query and the passkey procedures, called after alice registered by one
\* client that waits for each response before its next request.
FrameSpec == InitAlice /\ [][FrameNext]_vars

ChallengeOps == {"registerStart", "registerFinish", "loginStart", "loginFinish",
                 "addPasskeyStart", "addPasskeyFinish"}

ChallengeNext ==
    \/ Request({"s1"}, ChallengeOps, FALSE)
    \/ RegisterStep
    \/ \E r \in Slots :
        \/ loginStart(r)
        \/ loginFinishChallenge(r)
        \/ loginFinishSelect(r)
        \/ loginFinishVerify(r)
        \/ loginFinishUpdate(r)
        \/ loginFinishCreateSession(r)
    \/ \E r \in Slots :
        \/ addPasskeyStart(r)
        \/ addPasskeyFinishChallenge(r)
        \/ addPasskeyFinishVerify(r)
        \/ addPasskeyFinishInsertCred(r)

\* The three ceremonies of one logged-in client, its requests overlapping.
ChallengeSpec == InitAlice /\ [][ChallengeNext]_vars

----------------------------------------------------------------------------
\* The session module called directly (session.ts's exported functions), on
\* the cookie of one client. req[1] keeps the last call: its function, its
\* arguments, the hour it was made and what it returned.

Call(s, function, result, chal, userId, username) ==
    req' = [req EXCEPT ![1] =
               [IdleReq EXCEPT !.op = function, !.sess = s, !.res = result,
                               !.chal = chal, !.uid = userId, !.uname = username,
                               !.n = now]]

\* Identities a caller can pass; 0 and "" are the empty string.
ApiUserIds == {0} \cup UserIds
ApiUsernames == {""} \cup Usernames

apiCreateSession(s) ==
    \E userId \in UserIds, username \in Usernames :
        /\ jar' = [jar EXCEPT ![s] = createSession(jar[s], userId, username, now)]
        /\ Call(s, "createSession", "void", 0, userId, username)
        /\ UNCHANGED <<users, creds, nextUid, nextChal, now, consumed>>

apiDestroySession(s) ==
    /\ jar' = [jar EXCEPT ![s] = destroySession(jar[s])]
    /\ Call(s, "destroySession", "void", 0, 0, "")
    /\ UNCHANGED <<users, creds, nextUid, nextChal, now, consumed>>

apiStoreChallenge(s) ==
    \E challenge \in Challenges, userId \in ApiUserIds, username \in ApiUsernames :
        /\ jar' = [jar EXCEPT ![s] = storeChallenge(jar[s], challenge, userId, username)]
        /\ Call(s, "storeChallenge", "void", challenge, userId, username)
        /\ UNCHANGED <<users, creds, nextUid, nextChal, now, consumed>>

apiStoreChallengeUsernameless(s) ==
    \E challenge \in Challenges :
        /\ jar' = [jar EXCEPT ![s] = storeChallengeUsernameless(jar[s], challenge)]
        /\ Call(s, "storeChallengeUsernameless", "void", challenge, 0, "")
        /\ UNCHANGED <<users, creds, nextUid, nextChal, now, consumed>>

apiGetAndClearChallenge(s) ==
    LET d == getAndClearChallenge(jar[s]) IN
    /\ jar' = [jar EXCEPT ![s] = d.session]
    /\ Call(s, "getAndClearChallenge", IF d.found THEN "data" ELSE "null",
            d.challenge, d.userId, d.username)
    /\ UNCHANGED <<users, creds, nextUid, nextChal, now, consumed>>

apiGetAndClearChallengeUsernameless(s) ==
    LET d == getAndClearChallengeUsernameless(jar[s]) IN
    /\ jar' = [jar EXCEPT ![s] = d.session]
    /\ Call(s, "getAndClearChallengeUsernameless",
            IF d.found THEN "data" ELSE "null", d.challenge, 0, "")
    /\ UNCHANGED <<users, creds, nextUid, nextChal, now, consumed>>

apiGetCurrentUser(s) ==
    LET c == getCurrentUser(jar[s], now) IN
    /\ jar' = [jar EXCEPT ![s] = c.session]
    /\ Call(s, "getCurrentUser", IF c.user = NoUser THEN "null" ELSE "data",
            0, c.user.userId, c.user.username)
    /\ UNCHANGED <<users, creds, nextUid, nextChal, now, consumed>>

SessionApiNext ==
    \/ apiCreateSession("s1")
    \/ apiDestroySession("s1")
    \/ apiStoreChallenge("s1")
    \/ apiStoreChallengeUsernameless("s1")
    \/ apiGetAndClearChallenge("s1")
    \/ apiGetAndClearChallengeUsernameless("s1")
    \/ apiGetCurrentUser("s1")
    \/ Tick

\* Any sequence of calls of the session functions, over the hours.
SessionApiSpec == Init /\ [][SessionApiNext]_vars

----------------------------------------------------------------------------
\* Challenge replay.

FinishOps == {"registerFinish", "loginFinish", "addPasskeyFinish"}

\* C1: of the Finish requests that run against one session after one Start, at
\* most one obtains the bound challenge: no challenge is handed out twice,
\* also when the requests run concurrently.
C1_AtMostOneFinishObtainsChallenge == \A c \in Challenges : consumed[c] <= 1

\* The challenge a Finish request holds once getAndClearChallenge returned it.
Holding(r) ==
    IF req[r].op \in FinishOps /\ req[r].pc \notin {"done", "rfChallenge", "lfChallenge", "afChallenge"}
    THEN req[r].chal ELSE 0

\* C2: when the calls on a session follow one another, a stored challenge is
\* returned by the first getAndClearChallenge of its type and by no later
\* one: no challenge is returned twice, a returned challenge is no longer in
\* the session, and a call on a session that holds a challenge of the
\* expected type returns that challenge.
C2_ReturnedOnce ==
    /\ \A c \in Challenges :
        /\ consumed[c] <= 1
        /\ consumed[c] = 1 => \A s \in Sessions : jar[s].challenge # c
    /\ \A r \in Slots : Holding(r) # 0 => consumed[Holding(r)] = 1

C2_FirstCallReturns ==
    \A r \in Slots :
        LET q == req[r] IN
        /\ (/\ q.op \in {"registerFinish", "addPasskeyFinish"}
            /\ q.pc \in {"rfChallenge", "afChallenge"}
            /\ q.session.challengeType = "registration"
            /\ req'[r] # q)
           => /\ consumed'[q.session.challenge] = consumed[q.session.challenge] + 1
              /\ req'[r].res # "NO_CHALLENGE"
        /\ (/\ q.op = "loginFinish" /\ q.pc = "lfChallenge"
            /\ q.session.challengeType = "authentication"
            /\ req'[r] # q)
           => /\ consumed'[q.session.challenge] = consumed[q.session.challenge] + 1
              /\ req'[r].res # "NO_CHALLENGE"
        /\ (/\ q.op \in FinishOps
            /\ q.pc \in {"rfChallenge", "lfChallenge", "afChallenge"}
            /\ q.session.challenge = 0
            /\ req'[r] # q)
           => /\ consumed' = consumed
              /\ req'[r].res = "NO_CHALLENGE"

C2_ReadOnce == [](C2_ReturnedOnce) /\ [][C2_FirstCallReturns]_vars

\* A login challenge was returned once, and the loginFinish after it, with no
\* Start in between, got none.
C2_Witness ==
    /\ nextUid = 1
    /\ nextChal = 2
    /\ consumed[1] = 1
    /\ req[1].op = "loginFinish"
    /\ req[1].res = "NO_CHALLENGE"

----------------------------------------------------------------------------
\* Username race.

\* The user row of request r is inserted and r has not finished.
Inserted(r) ==
    /\ req[r].op = "registerFinish"
    /\ req[r].pc \in {"rfVerify", "rfInsertCred", "rfRollback", "rfCreateSession"}

\* C3: of two registerFinish requests for one username that run in two
\* sessions, the one that finds the name taken by the other fails with
\* USERNAME_TAKEN, whatever the interleaving, and never with the store's
\* constraint error.
C3_LoserGetsUsernameTaken ==
    [][\A r, w \in Slots :
        (/\ Inserted(w)
         /\ req[r].op = "registerFinish"
         /\ req[r].pc \in {"rfSelect", "rfInsertUser"}
         /\ req[r].uname = req[w].uname
         /\ req[r].sess # req[w].sess
         /\ req'[r].pc = "done")
        => req'[r].res = "USERNAME_TAKEN"]_vars

\* C4: no two user rows have the same username.
C4_UsernameUnique ==
    \A u, v \in users : u.username = v.username => u = v

\* A second insert for a username was attempted and refused by the index.
C4_Witness ==
    \E r \in Slots, w \in Slots :
        /\ req[r].op = "registerFinish" /\ req[r].res = "SQLITE_CONSTRAINT"
        /\ Inserted(w)
        /\ Cardinality(users) = 1
        /\ nextUid = 3

----------------------------------------------------------------------------
\* Last credential.

\* C5: every user row whose registration is not in flight owns at least one
\* credential, whatever the interleaving of removeCredential and
\* addPasskeyFinish requests.
C5_EveryUserKeepsACredential ==
    \A u \in users :
        \/ CredsOf(u.id) # {}
        \/ \E r \in Slots : Inserted(r) /\ req[r].uid = u.id

\* C6: removeCredential by a user who owns exactly one credential fails with
\* the code LAST_CREDENTIAL, for any credential id, and deletes no row.
C6_SoleCredentialIsLastCredential ==
    [][\A r \in Slots :
        (/\ At(r, "removeCredential", "rmSelect")
         /\ Cardinality(CredsOf(req[r].ctxUid)) = 1
         /\ req'[r] # req[r])
        => /\ req'[r].pc = "done"
           /\ req'[r].res = "LAST_CREDENTIAL"
           /\ creds' = creds]_vars

\* C7: removeCredential by a user who owns two or more credentials, on one
\* of them, goes on to the delete, and the delete of an own credential
\* succeeds and removes that row alone: every other credential row and every
\* user row is as before.
C7_RemovesExactlyTheTarget ==
    [][\A r \in Slots :
        LET q == req[r]
            own == CredsOf(q.ctxUid) IN
        /\ (/\ At(r, "removeCredential", "rmSelect")
            /\ Cardinality(own) >= 2 /\ q.cid \in own
            /\ req'[r] # q)
           => /\ req'[r].pc = "rmDelete"
              /\ creds' = creds
        /\ (/\ At(r, "removeCredential", "rmDelete")
            /\ q.cid \in own
            /\ req'[r] # q)
           => /\ req'[r].res = "ok"
              /\ creds'[q.cid] = NoCred
              /\ \A c \in CredIds \ {q.cid} : creds'[c] = creds[c]
              /\ users' = users]_vars

\* alice, who had added c3, removed c1: c3 is left, and bob's c2.
C7_Witness ==
    /\ \E r \in Slots : req[r].op = "removeCredential" /\ req[r].res = "ok"
    /\ CredsOf(1) = {"c3"}
    /\ CredsOf(2) = {"c2"}

----------------------------------------------------------------------------
\* Failed and concurrent logins.

Identity(session) == <<session.userId, session.username, session.createdAt>>

\* C8: a loginFinish that fails leaves every credential row (counter,
\* lastUsedAt) as it was, and the identity in the session cookie is the one
\* the request came with: the failing step writes nothing, and the steps
\* before it write only the cleared challenge.
C8_FailedLoginChangesNothing ==
    [][\A r \in Slots :
        LET q == req[r] IN
        (/\ q.op = "loginFinish"
         /\ q.pc \in {"lfChallenge", "lfSelect", "lfVerify"}
         /\ req'[r] # q)
        => /\ creds' = creds
           /\ users' = users
           /\ \A s \in Sessions \ {q.sess} : jar'[s] = jar[s]
           /\ \/ jar'[q.sess] = jar[q.sess]
              \/ Identity(jar'[q.sess]) = Identity(q.session)
           /\ req'[r].res = "AUTHENTICATION_FAILED"
              => /\ q.pc \in {"lfSelect", "lfVerify"}
                 /\ jar' = jar]_vars

\* A loginFinish of alice's client consumed its challenge and failed
\* verification: c1 was never used and the client is logged in as before.
C8_Witness ==
    /\ \E r \in Slots :
        /\ req[r].op = "loginFinish"
        /\ req[r].res = "AUTHENTICATION_FAILED"
        /\ req[r].msg = "Authentication verification failed"
    /\ consumed[2] = 1
    /\ creds["c1"].lastUsedAt = 0
    /\ Identity(jar["s1"]) = <<1, "alice", 1>>

\* C9: the stored counter of a credential never takes a value lower than
\* one it held, whatever the interleaving of loginFinish requests.
C9_CounterMonotonic ==
    [][\A c \in CredIds :
        (creds[c].owner # 0 /\ creds'[c].owner = creds[c].owner)
        => creds'[c].counter >= creds[c].counter]_vars

----------------------------------------------------------------------------
\* Registration rollback.

\* C10, in every state: a user row without a credential belongs to a
\* registerFinish that is still running, and a session names a user only if
\* that user has a credential.
C10_NoOrphanUser ==
    /\ \A u \in users :
        \/ CredsOf(u.id) # {}
        \/ \E r \in Slots :
            /\ req[r].op = "registerFinish"
            /\ req[r].pc \in {"rfVerify", "rfInsertCred", "rfRollback"}
            /\ req[r].uid = u.id
    /\ \A s \in Sessions :
        jar[s].userId # 0 =>
            UserExists(jar[s].userId) /\ CredsOf(jar[s].userId) # {}

\* C10, in every step: a failed verification or credential insert leads to
\* the rollback, and the rollback deletes the user row, ends the call with
\* REGISTRATION_FAILED and leaves the session cookies alone.
C10_RollbackStep ==
    \A r \in Slots :
        LET q == req[r] IN
        /\ (/\ q.op = "registerFinish" /\ q.pc \in {"rfVerify", "rfInsertCred"}
            /\ req'[r] # q)
           => /\ req'[r].pc \in {"rfInsertCred", "rfCreateSession", "rfRollback"}
              /\ req'[r].pc = "rfCreateSession" => q.uid \in {creds'[c].owner : c \in CredIds}
              /\ jar' = jar
        /\ (At(r, "registerFinish", "rfRollback") /\ req'[r] # q)
           => /\ \A u \in users' : u.id # q.uid
              /\ req'[r].pc = "done"
              /\ req'[r].res = "REGISTRATION_FAILED"
              /\ jar' = jar

C10_RollbackOnFailure == [](C10_NoOrphanUser) /\ [][C10_RollbackStep]_vars

\* A registerFinish was rolled back: it failed, and no user row is left.
C10_Witness ==
    /\ \E r \in Slots :
        req[r].op = "registerFinish" /\ req[r].res = "REGISTRATION_FAILED"
    /\ users = {}
    /\ nextUid = 2

----------------------------------------------------------------------------
\* Registration outcomes.

\* C11: a registerFinish whose session holds no registration challenge (none
\* was stored, it was consumed, or the stored one is a login challenge)
\* fails with NO_CHALLENGE, and writes no user row, no credential row and no
\* session.
C11_NoChallengeNoEffect ==
    [][\A r \in Slots :
        LET q == req[r] IN
        (/\ At(r, "registerFinish", "rfChallenge")
         /\ (q.session.challenge = 0 \/ q.session.challengeType # "registration")
         /\ req'[r] # q)
        => /\ req'[r].pc = "done"
           /\ req'[r].res = "NO_CHALLENGE"
           /\ users' = users
           /\ creds' = creds
           /\ jar' = jar]_vars

\* A registerFinish found only the challenge of a loginStart and failed.
C11_Witness ==
    /\ req[1].op = "registerFinish"
    /\ req[1].res = "NO_CHALLENGE"
    /\ jar["s1"].challengeType = "authentication"
    /\ users = {}

\* C12: when registerFinish succeeds, the store holds exactly one user row
\* for the bound username, that user owns exactly one credential, and
\* getCurrentUser on the caller's session returns the user id and username
\* that registerStart bound to the challenge.
C12_SuccessfulRegistration ==
    [][\A r \in Slots :
        LET q == req[r] IN
        (At(r, "registerFinish", "rfCreateSession") /\ req'[r] # q)
        => /\ req'[r].res = "ok"
           /\ {u \in users' : u.username = q.uname}
                 = {[id |-> q.uid, username |-> q.uname]}
           /\ Cardinality({c \in CredIds : creds'[c].owner = q.uid}) = 1
           /\ getCurrentUser(jar'[q.sess], now').user
                 = [userId |-> q.uid, username |-> q.uname]]_vars

\* bob registered from client s2 after alice from s1.
C12_Witness ==
    /\ \E r \in Slots : req[r].op = "registerFinish" /\ req[r].res = "ok"
    /\ jar["s2"].userId = 2
    /\ jar["s2"].username = "bob"
    /\ [id |-> 2, username |-> "bob"] \in users
    /\ Cardinality(CredsOf(2)) = 1

----------------------------------------------------------------------------
\* Session lifetime.

\* The session names a user and is older than the absolute maximum age.
Expired(session, t) ==
    /\ session.userId # 0
    /\ session.createdAt # 0
    /\ t - session.createdAt > ABSOLUTE_MAX_AGE

\* A request arrives in slot r in this step.
Arrives(r) == Free(r) /\ req'[r] # req[r]

\* C13, at the check of an arriving request: an expired session is reported
\* as no user and destroyed (a protected procedure is rejected); a session
\* that names a user and is at most ABSOLUTE_MAX_AGE old is reported as that
\* user and left as it is.
C13_CheckAtArrival ==
    \A r \in Slots :
        Arrives(r) =>
            LET s == req'[r].sess
                q == req'[r] IN
            /\ Expired(jar[s], now)
               => /\ jar'[s] = EmptySession
                  /\ q.ctxUid = 0
                  /\ q.op \in Protected => q.res = "UNAUTHORIZED"
                  /\ q.op \notin Protected => q.pc # "done"
            /\ (/\ jar[s].userId # 0 /\ jar[s].createdAt # 0
                /\ now - jar[s].createdAt <= ABSOLUTE_MAX_AGE)
               => /\ jar'[s] = jar[s]
                  /\ q.pc # "done"
                  /\ q.ctxUid = jar[s].userId
                  /\ q.ctxName = jar[s].username

\* C13, afterwards: a session that is not valid is valid again only by the
\* createSession of a login that succeeds, which stamps it with the hour.
C13_StaysInvalid ==
    \A s \in Sessions :
        (/\ ~isSessionValid(jar[s], now).valid
         /\ isSessionValid(jar'[s], now').valid)
        => /\ \E r \in Slots :
                /\ At(r, "loginFinish", "lfCreateSession")
                /\ req[r].sess = s
                /\ req'[r].res = "ok"
           /\ jar'[s].createdAt = now

C13_AbsoluteTimeout == [][C13_CheckAtArrival /\ C13_StaysInvalid]_vars

\* In the tenth hour the session of the first hour was found expired: the
\* cookie is empty and the request to add a passkey was rejected.
C13_Witness ==
    /\ now = 10
    /\ jar["s1"] = EmptySession
    /\ \E r \in Slots :
        req[r].op = "addPasskeyStart" /\ req[r].res = "UNAUTHORIZED"

\* C14: isSessionValid is false whenever the session lacks userId or
\* createdAt, and getCurrentUser returns a user, the session's userId and
\* username, exactly when isSessionValid is true.
C14_FailClosed ==
    \A s \in Sessions :
        LET valid == isSessionValid(jar[s], now).valid
            user == getCurrentUser(jar[s], now).user IN
        /\ (jar[s].userId = 0 \/ jar[s].createdAt = 0) => ~valid
        /\ user # NoUser <=> valid
        /\ valid => user = [userId |-> jar[s].userId, username |-> jar[s].username]
        /\ ~valid => user.userId = 0

\* A cookie that names a user but has no createdAt was asked who it is, and
\* the answer was null.
C14_Witness ==
    /\ jar["s1"].userId = 1
    /\ jar["s1"].createdAt = 0
    /\ req[1].op = "session"
    /\ req[1].res = "null"
    /\ jar["s2"] = EmptySession

----------------------------------------------------------------------------
\* Login.

\* C15: a loginFinish with a valid assertion runs to its createSession, and
\* the session it establishes is the one of the owner of the credential the
\* assertion names: getCurrentUser returns that user's id and username,
\* also after a registration and a logout in the same client.
C15_LoginIdentity ==
    [][\A r \in Slots :
        LET q == req[r] IN
        /\ (/\ q.op = "loginFinish" /\ q.pc \in {"lfVerify", "lfUpdate"}
            /\ req'[r] # q /\ req'[r].res # "AUTHENTICATION_FAILED")
           => req'[r].pc \in {"lfUpdate", "lfCreateSession"}
        /\ (At(r, "loginFinish", "lfCreateSession") /\ req'[r] # q)
           => /\ req'[r].res = "ok"
              /\ \E u \in users :
                   /\ u.id = creds[q.cid].owner
                   /\ getCurrentUser(jar'[q.sess], now').user
                         = [userId |-> u.id, username |-> u.username]]_vars

\* alice and bob registered from the client, and a login with alice's
\* credential c1 made the session alice's.
C15_Witness ==
    /\ req[1].op = "loginFinish"
    /\ req[1].res = "ok"
    /\ Cardinality(users) = 2
    /\ \E u \in users : u.username = "alice" /\ creds["c1"].owner = u.id
                        /\ jar["s1"].userId = u.id
    /\ jar["s1"].username = "alice"

----------------------------------------------------------------------------
\* Adding and renaming passkeys.

\* C16: addPasskeyFinish goes on to verify and store only when the user id
\* bound to the challenge it retrieved is the caller's; when they differ the
\* call fails at once and inserts no credential, and a credential that an
\* addPasskeyFinish inserts is the caller's.
C16_ChallengeBoundToCaller ==
    [][\A r \in Slots :
        LET q == req[r] IN
        /\ (At(r, "addPasskeyFinish", "afChallenge") /\ req'[r] # q)
           => /\ req'[r].pc = "afVerify"
                 => q.session.pendingUserId = q.ctxUid
              /\ (/\ q.session.challenge # 0
                  /\ q.session.challengeType = "registration"
                  /\ q.session.pendingUserId # q.ctxUid)
                 => /\ req'[r].pc = "done"
                    /\ req'[r].res = "CHALLENGE_NOT_FOR_USER"
              /\ creds' = creds
        /\ (q.op = "addPasskeyFinish" /\ req'[r] # q)
           => \A c \in CredIds :
                creds'[c] # creds[c]
                => /\ creds[c] = NoCred
                   /\ creds'[c].owner = q.ctxUid
                   /\ req'[r].res = "ok"]_vars

\* alice, logged in, started a registration for bob and then called
\* addPasskeyFinish: the challenge is bob's, and the call failed.
C16_Witness ==
    /\ req[1].op = "addPasskeyFinish"
    /\ req[1].res = "CHALLENGE_NOT_FOR_USER"
    /\ jar["s1"].userId = 1
    /\ Cardinality(users) = 1
    /\ nextUid = 3
    /\ Cardinality(CredsOf(1)) = 1

----------------------------------------------------------------------------
\* registerStart refusals.

C18_TakenUsernameNoEffect ==
    [][\A r \in Slots :
        LET q == req[r] IN
        (/\ At(r, "registerStart", "rsBody")
         /\ q.uname \in Usernames
         /\ \E u \in users : u.username = q.uname
         /\ req'[r] # q)
        => /\ req'[r].pc = "done"
           /\ req'[r].res = "USERNAME_TAKEN"
           /\ users' = users
           /\ creds' = creds
           /\ jar' = jar]_vars

\* A registerStart for alice, who is registered, failed, and the client
\* that never started a ceremony holds no challenge.
C18_Witness ==
    /\ req[1].op = "registerStart"
    /\ req[1].res = "USERNAME_TAKEN"
    /\ req[2] = IdleReq
    /\ nextUid = 3
    /\ jar["s2"] = EmptySession
    /\ jar["s1"].challenge = 0

\* C19: a renameCredential that succeeds changes the name of its target and
\* nothing else: every step of the call leaves the user rows and every other
\* credential row as they were, the target keeps its owner, counter and
\* lastUsedAt, so the owner's list has the same credential ids; and the
\* caller's own target carries the new name afterwards.
C19_RenameChangesOnlyTheName ==
    [][\A r \in Slots :
        LET q == req[r] IN
        (q.op = "renameCredential" /\ q.pc # "done" /\ req'[r] # q)
        => /\ users' = users
           /\ \A c \in CredIds \ {q.cid} : creds'[c] = creds[c]
           /\ creds'[q.cid] \in {creds[q.cid], [creds[q.cid] EXCEPT !.name = q.name]}
           /\ \A u \in UserIds : {c \in CredIds : creds'[c].owner = u} = CredsOf(u)
           /\ (q.pc = "rnSelect" /\ q.name # "" /\ q.cid \in CredsOf(q.ctxUid))
              => req'[r].pc = "rnUpdate"
           /\ (q.pc = "rnUpdate" /\ q.cid \in CredsOf(q.ctxUid))
              => /\ req'[r].res = "ok"
                 /\ creds'[q.cid].name = q.name
           /\ req'[r].res = "ok" => q.pc = "rnUpdate"]_vars

\* bob added a second passkey, c3, and renamed it: both of his passkeys are
\* listed, c3 as "My Phone".
C19_Witness ==
    /\ \E r \in Slots : req[r].op = "renameCredential" /\ req[r].res = "ok"
    /\ CredsOf(2) = {"c2", "c3"}
    /\ creds["c3"].name = "My Phone"
    /\ creds["c2"].name = "Passkey 1"
    /\ creds["c1"] = NewCredential(1, "Passkey 1", 0)

----------------------------------------------------------------------------
\* Logout.

\* C20: logout leaves the session invalid, and a session that is not valid
\* becomes valid again only by the createSession of a registerFinish or
\* loginFinish that succeeds in that session: until then getCurrentUser
\* returns null and protected procedures are rejected.
C20_LoggedOutUntilLogin ==
    [][/\ \A r \in Slots :
            (At(r, "logout", "loBody") /\ req'[r] # req[r])
            => ~isSessionValid(jar'[req[r].sess], now').valid
       /\ \A s \in Sessions :
            (/\ ~isSessionValid(jar[s], now).valid
             /\ isSessionValid(jar'[s], now').valid)
            => \E r \in Slots :
                /\ req[r].sess = s
                /\ req[r].pc \in {"rfCreateSession", "lfCreateSession"}
                /\ req'[r].res = "ok"]_vars

----------------------------------------------------------------------------
\* createSession's postcondition.

\* C21: after createSession(userId, username) the session is exactly
\* {userId, username, createdAt: now}: challenge, challengeType, pendingUserId
\* and pendingUsername are all absent, whatever the session held before.
C21_CreateSessionLeavesNoChallengeField ==
    req[1].op = "createSession" /\ req[1].n = now =>
        jar[req[1].sess] =
            [EmptySession EXCEPT !.userId = req[1].uid,
                                 !.username = req[1].uname,
                                 !.createdAt = req[1].n]

----------------------------------------------------------------------------
\* loginFinish with an unknown credential.

\* The lookup of a loginFinish that holds its challenge ends the request.
SelectFails(r) == At(r, "loginFinish", "lfSelect") /\ req'[r].pc = "done"

\* C22 as stated: a loginFinish whose challenge was accepted and whose
\* assertion names a credential id that is not stored fails with
\* CredentialNotFound, establishes no session and changes no stored row.
C22_UnknownCredentialIsCredentialNotFound ==
    [][\A r \in Slots :
        SelectFails(r) /\ req'[r].msg = "Credential not found" =>
            /\ req'[r].res = "CREDENTIAL_NOT_FOUND"
            /\ jar' = jar /\ creds' = creds /\ users' = users]_vars

\* C22, amended: such a loginFinish fails with AuthenticationFailed (message
\* "Credential not found"), establishes no session and changes no stored
\* row; the lookup lets only a stored credential, with its owner, proceed.
C22_UnknownCredentialFails ==
    [][\A r \in Slots :
        /\ SelectFails(r) /\ req'[r].msg = "Credential not found" =>
            /\ req'[r].res = "AUTHENTICATION_FAILED"
            /\ jar' = jar /\ creds' = creds /\ users' = users
        /\ At(r, "loginFinish", "lfSelect") /\ req'[r].pc = "lfVerify" =>
            /\ creds[req'[r].cid].owner # 0
            /\ req'[r].uid = creds[req'[r].cid].owner]_vars

C22_Witness ==
    \E r \in Slots :
        /\ req[r].op = "loginFinish"
        /\ req[r].res = "AUTHENTICATION_FAILED"
        /\ req[r].msg = "Credential not found"
        /\ consumed[1] + consumed[2] > 1

----------------------------------------------------------------------------
\* The absolute lifetime of a session.

\* The step is the createSession of a login of client s.
CreatesSession(s) ==
    \E r \in Slots : At(r, "loginFinish", "lfCreateSession") /\ req[r].sess = s

\* C23: createdAt is written only by createSession (and removed by
\* destroySession): no other operation moves it, so a request is taken as
\* a user's only within ABSOLUTE_MAX_AGE of the session's last createSession.
C23_LifetimeFromLastCreateSession ==
    [][/\ \A s \in Sessions :
            jar'[s].createdAt # jar[s].createdAt =>
                \/ jar'[s].createdAt = 0
                \/ CreatesSession(s) /\ jar'[s].createdAt = now
       /\ \A r \in Slots :
            Arrives(r) /\ req'[r].ctxUid # 0 =>
                /\ jar[req'[r].sess].createdAt # 0
                /\ now - jar[req'[r].sess].createdAt <= ABSOLUTE_MAX_AGE]_vars

\* The session of hour 1 has ended although ceremonies were started in it.
C23_Witness ==
    /\ now > 1 + ABSOLUTE_MAX_AGE
    /\ nextChal > 2
    /\ jar["s1"].createdAt = 0
    /\ \E r \in Slots : req[r].op = "addPasskeyStart" /\ req[r].res = "UNAUTHORIZED"
    /\ \E c \in CredIds : creds[c].name = "My Phone"

----------------------------------------------------------------------------
\* The signature counter at login.

\* C24: when the credential's stored counter is non-zero, a loginFinish
\* whose assertion counter does not strictly exceed it fails with
\* AuthenticationFailed, the stored counter keeps its value and no session is
\* established: a verification passes only with a counter above a non-zero
\* stored one, and a failed one changes neither the store nor the cookie.
C24_CounterRegressionRejected ==
    [][\A r \in Slots :
        At(r, "loginFinish", "lfVerify") =>
            /\ (req'[r].pc = "lfUpdate" /\ creds[req[r].cid].counter > 0) =>
                    req'[r].n > creds[req[r].cid].counter
            /\ req'[r].pc = "done" =>
                    /\ req'[r].res = "AUTHENTICATION_FAILED"
                    /\ creds' = creds /\ jar' = jar]_vars

----------------------------------------------------------------------------
\* Who writes a credential's counter and lastUsedAt.

\* C25: the counter and lastUsedAt of a stored credential are changed only
\* by the update of a loginFinish whose verification passed with that
\* credential, which sets the counter to the verified newCounter and
\* lastUsedAt to now; every other step of every procedure (registration,
\* adding, renaming or removing a passkey, logout, any failed operation)
\* leaves them as they are.
C25_CounterWrittenOnlyByLogin ==
    [][\A c \in CredIds :
        /\ creds[c].owner # 0 /\ creds'[c].owner # 0
        /\ \/ creds'[c].counter # creds[c].counter
           \/ creds'[c].lastUsedAt # creds[c].lastUsedAt
        => \E r \in Slots :
            /\ At(r, "loginFinish", "lfUpdate")
            /\ req[r].cid = c
            /\ creds'[c].counter = req[r].n
            /\ creds'[c].lastUsedAt = now
            /\ req'[r].pc = "lfCreateSession"]_vars

\* A credential used by a login keeps its counter through a rename.
C25_Witness ==
    /\ req[1].op = "renameCredential" /\ req[1].res = "ok"
    /\ \E c \in CredIds :
        /\ creds[c].name = "My Phone"
        /\ creds[c].counter = MaxCounter
        /\ creds[c].lastUsedAt = now

----------------------------------------------------------------------------
\* One challenge per session.

\* The step completes a Start of request r successfully.
StartStep(r) ==
    /\ req[r].pc \in {"rsBody", "lsBody", "asBody"}
    /\ req'[r].pc = "done" /\ req'[r].res = "ok"

----------------------------------------------------------------------------
\* Ceremony types.

\* The step is a call of the session function.
Calls(function) == req'[1] # req[1] /\ req'[1].op = function

\* C27: getAndClearChallenge("registration") returns null, and leaves the
\* session alone, when the session holds no challenge, holds one of type
\* authentication, or lacks the bound user id or username, and otherwise
\* returns the stored challenge with its identity;
\* getAndClearChallengeUsernameless returns null unless the session holds a
\* challenge of type authentication. storeChallengeUsernameless (loginStart)
\* stores type authentication and storeChallenge (registerStart,
\* addPasskeyStart) type registration, so neither kind of challenge is
\* handed to the other ceremony's Finish.
C27_CeremonyTypesNotConfused ==
    [][LET session == jar["s1"] IN
       /\ Calls("getAndClearChallenge") =>
            IF \/ session.challenge = 0
               \/ session.challengeType = "authentication"
               \/ session.challengeType = "none"
               \/ session.pendingUserId = 0
               \/ session.pendingUsername = ""
            THEN req'[1].res = "null" /\ jar' = jar
            ELSE /\ req'[1].res = "data"
                 /\ req'[1].chal = session.challenge
                 /\ req'[1].uid = session.pendingUserId
                 /\ req'[1].uname = session.pendingUsername
       /\ Calls("getAndClearChallengeUsernameless") =>
            IF session.challenge = 0 \/ session.challengeType # "authentication"
            THEN req'[1].res = "null" /\ jar' = jar
            ELSE req'[1].res = "data" /\ req'[1].chal = session.challenge
       /\ Calls("storeChallengeUsernameless") =>
            jar'["s1"].challengeType = "authentication"
       /\ Calls("storeChallenge") =>
            jar'["s1"].challengeType = "registration"]_vars

\* A registration challenge was refused by the usernameless read and is
\* still in the session.
C27_Witness ==
    /\ req[1].op = "getAndClearChallengeUsernameless"
    /\ req[1].res = "null"
    /\ jar["s1"].challengeType = "registration"
    /\ jar["s1"].challenge # 0
    /\ jar["s1"].pendingUserId # 0

----------------------------------------------------------------------------
\* Ownership on credential mutation.

\* Request r is at the ownership check of a rename or a removal.
ChecksOwner(r) ==
    \/ At(r, "removeCredential", "rmSelect")
    \/ At(r, "renameCredential", "rnSelect") /\ credentialNameSchema(req[r].name)

\* C28: renameCredential and removeCredential called by a user with the id
\* of a credential that is absent or owned by another user fail with
\* CredentialNotFound and leave every Credential row and every User row
\* unchanged.
C28_OnlyTheOwnerMutates ==
    [][\A r \in Slots :
        /\ ChecksOwner(r) /\ req'[r] # req[r]
        /\ creds[req[r].cid].owner # req[r].ctxUid
        =>
            /\ req'[r].pc = "done"
            /\ req'[r].res = "CREDENTIAL_NOT_FOUND"
            /\ creds' = creds /\ users' = users]_vars

\* alice, holding two passkeys, was refused the removal of one that is not
\* hers, and bob the rename of one that is not his.
C28_Witness ==
    /\ \E r \in Slots :
        /\ req[r].op = "removeCredential"
        /\ req[r].res = "CREDENTIAL_NOT_FOUND"
        /\ req[r].msg = "Credential not found"
    /\ \E r \in Slots :
        /\ req[r].op = "renameCredential"
        /\ req[r].res = "CREDENTIAL_NOT_FOUND"
    /\ \E c \in CredIds : creds[c].owner = 1
    /\ \E c \in CredIds : creds[c].owner = 2

----------------------------------------------------------------------------
\* Default passkey names.

\* C29: a credential, when it is stored, is named "Passkey N" with N one
\* more than the number of credentials its owner holds at that moment; the
\* credential stored by registerFinish is named "Passkey 1".
C29_DefaultNameCountsAtStoring ==
    [][\A c \in CredIds :
        creds[c].owner = 0 /\ creds'[c].owner # 0 =>
            /\ creds'[c].name =
                   "Passkey " \o ToString(Cardinality(CredsOf(creds'[c].owner)) + 1)
            /\ (\E r \in Slots : At(r, "registerFinish", "rfInsertCred") /\ req'[r] # req[r])
                   => creds'[c].name = "Passkey 1"]_vars

----------------------------------------------------------------------------
\* Credential ids are unique.

\* Request r takes the step that leaves pc.
Steps(r, op, pc) == At(r, op, pc) /\ req'[r] # req[r]

\* C30: an insert of a credential whose id is already stored inserts and
\* changes nothing: addPasskeyFinish then fails with RegistrationFailed, and
\* registerFinish goes to its rollback, which fails with RegistrationFailed,
\* leaves no User row of the new user and leaves every other user's
\* credentials, the existing one among them, as they are.
C30_DuplicateCredentialIdRejected ==
    [][\A r \in Slots :
        LET q == req[r] IN
        /\ Steps(r, "addPasskeyFinish", "afInsertCred") /\ creds[q.cid].owner # 0 =>
            /\ creds' = creds /\ users' = users
            /\ req'[r].res = "REGISTRATION_FAILED"
        /\ Steps(r, "registerFinish", "rfInsertCred") /\ creds[q.cid].owner # 0 =>
            /\ creds' = creds /\ users' = users
            /\ req'[r].pc = "rfRollback"
        /\ Steps(r, "registerFinish", "rfRollback") =>
            /\ req'[r].res = "REGISTRATION_FAILED"
            /\ \A u \in users' : u.id # q.uid
            /\ \A u \in users : u.id # q.uid => u \in users'
            /\ \A c \in CredIds : creds[c].owner # q.uid => creds'[c] = creds[c]]_vars

\* A verified registration is at its rollback because its credential id
\* belongs to another user.
C30_Witness ==
    \E r \in Slots :
        /\ At(r, "registerFinish", "rfRollback")
        /\ req[r].name = "Passkey 1"
        /\ creds[req[r].cid].owner \notin {0, req[r].uid}
        /\ \E u \in users : u.id = req[r].uid

----------------------------------------------------------------------------
\* Credentials belong to stored users.

\* C31: every Credential row's owner is an existing User row, and a
\* registerFinish that has come to verify or to store its credential has
\* its User row in the store: the user is inserted before the credential,
\* and the rollback's delete leaves no credential of the deleted user.
C31_OwnerExists ==
    /\ \A c \in CredIds : creds[c].owner # 0 => UserExists(creds[c].owner)
    /\ \A r \in Slots :
        req[r].pc \in {"rfVerify", "rfInsertCred", "rfCreateSession"} =>
            UserExists(req[r].uid)

\* A registration was rolled back while another one's user and credential
\* are stored and a third is about to store its credential.
C31_Witness ==
    /\ \E r \in Slots : req[r].op = "registerFinish" /\ req[r].res = "REGISTRATION_FAILED"
    /\ \E r \in Slots : req[r].pc = "rfInsertCred"
    /\ \E c \in CredIds : creds[c].owner # 0

----------------------------------------------------------------------------
\* Retry from scratch.

\* The last request was a Start that succeeded, and none is in flight.
JustStarted(op) ==
    /\ \A r \in Slots : Free(r)
    /\ req[1].op = op /\ req[1].res = "ok"

\* C32: whatever failed before, a ceremony started anew succeeds. A
\* registerStart for a valid, unused username and a loginStart succeed and
\* leave their challenge in the session; the Finish that follows obtains
\* it; registerFinish with a verified response for an unused credential id
\* stores user and credential and logs the user in; loginFinish with a
\* valid assertion of a stored credential logs its owner in.
C32_RetryStep ==
    \A r \in Slots :
        LET q == req[r] IN
        /\ Steps(r, "registerStart", "rsBody")
             /\ usernameSchema(q.uname) /\ (\A u \in users : u.username # q.uname)
             => req'[r].res = "ok"
        /\ Steps(r, "loginStart", "lsBody") => req'[r].res = "ok"
        /\ Steps(r, "registerFinish", "rfChallenge")
             /\ q.session.challenge # 0 /\ q.session.challengeType = "registration"
             /\ q.session.pendingUserId # 0 /\ q.session.pendingUsername # ""
             => req'[r].pc = "rfSelect"
        /\ Steps(r, "registerFinish", "rfSelect")
             /\ (\A u \in users : u.username # q.uname)
             => req'[r].pc = "rfInsertUser"
        /\ Steps(r, "registerFinish", "rfInsertUser")
             /\ (\A u \in users : u.username # q.uname /\ u.id # q.uid)
             => req'[r].pc = "rfVerify" /\ (\E u \in users' : u.id = q.uid)
        /\ Steps(r, "registerFinish", "rfInsertCred") /\ creds[q.cid].owner = 0
             => req'[r].pc = "rfCreateSession" /\ creds'[q.cid].owner = q.uid
        /\ Steps(r, "registerFinish", "rfCreateSession")
             => /\ req'[r].res = "ok"
                /\ jar'[q.sess].userId = q.uid /\ jar'[q.sess].username = q.uname
        /\ Steps(r, "loginFinish", "lfChallenge")
             /\ q.session.challenge # 0 /\ q.session.challengeType = "authentication"
             => req'[r].pc = "lfSelect"
        /\ Steps(r, "loginFinish", "lfUpdate") => req'[r].pc = "lfCreateSession"
        /\ Steps(r, "loginFinish", "lfCreateSession")
             => /\ req'[r].res = "ok"
                /\ jar'[q.sess].userId = creds[q.cid].owner

C32_RetrySucceeds ==
    /\ [][C32_RetryStep]_vars
    /\ [](JustStarted("registerStart") =>
            /\ jar["s1"].challenge # 0
            /\ jar["s1"].challengeType = "registration"
            /\ jar["s1"].pendingUserId # 0
            /\ \A u \in users : /\ u.username # jar["s1"].pendingUsername
                                /\ u.id # jar["s1"].pendingUserId)
    /\ [](JustStarted("loginStart") =>
            jar["s1"].challenge # 0 /\ jar["s1"].challengeType = "authentication")
    /\ [](\A r \in Slots :
            req[r].pc \in {"rfChallenge", "lfChallenge"} => req[r].session = jar["s1"])
    /\ [](\A r \in Slots :
            req[r].pc \in {"lfVerify", "lfUpdate", "lfCreateSession"} =>
                creds[req[r].cid].owner = req[r].uid /\ UserExists(req[r].uid))

\* A registration has succeeded after an earlier registration's Finish
\* consumed its challenge and failed.
C32_Witness ==
    /\ JustStarted("registerFinish")
    /\ nextChal = 3 /\ nextUid = 3
    /\ consumed[1] = 1 /\ consumed[2] = 1
    /\ Cardinality(users) = 1
    /\ jar["s1"].userId # 0

----------------------------------------------------------------------------
\* Where a session's identity comes from.

\* C33: the user a session names is set or changed only by the
\* createSession of a registerFinish that stored a credential for that user
\* or of a loginFinish whose assertion verified against a credential that
\* user owns; a Start, a failed Finish, logout and the expiry check at most
\* remove the identity.
C33_IdentityOnlyByCeremony ==
    [][\A s \in Sessions :
        /\ <<jar'[s].userId, jar'[s].username>> # <<jar[s].userId, jar[s].username>>
        /\ jar'[s].userId # 0
        => \E r \in Slots :
            LET q == req[r] IN
            /\ q.sess = s
            /\ q.pc \in {"rfCreateSession", "lfCreateSession"}
            /\ req'[r].res = "ok"
            /\ creds[q.cid].owner = q.uid
            /\ jar'[s].userId = q.uid /\ jar'[s].username = q.uname]_vars

----------------------------------------------------------------------------
\* The compensating delete.

\* Request r has inserted its user row and not yet finished.
HoldsUserRow(r) ==
    req[r].pc \in {"rfVerify", "rfInsertCred", "rfRollback", "rfCreateSession"}

\* C34: the rollback of a registerFinish deletes at most the User row that
\* this request inserted: the row with its user id and username, which owns
\* no credential and which no other request in flight has inserted; every
\* other User row and every Credential row stays.
C34_RollbackDeletesOwnRow ==
    [][\A r \in Slots :
        Steps(r, "registerFinish", "rfRollback") =>
            LET q == req[r] IN
            /\ users \ users' = {[id |-> q.uid, username |-> q.uname]}
            /\ users' \subseteq users
            /\ CredsOf(q.uid) = {}
            /\ creds' = creds
            /\ \A o \in Slots \ {r} : HoldsUserRow(o) => req[o].uid # q.uid]_vars

\* A rollback has run although the registration's challenge was handed to
\* two requests, and another registration's user and credential are stored.
C34_Witness ==
    /\ \E c \in Challenges : consumed[c] = 2
    /\ \E r \in Slots : req[r].op = "registerFinish" /\ req[r].res = "REGISTRATION_FAILED"
    /\ \E c \in CredIds : creds[c].owner # 0

----------------------------------------------------------------------------
\* An add-passkey challenge presented to registerFinish.

\* The challenge request r obtained is bound to the identity of the session
\* it came with (as addPasskeyStart binds it) or to a stored user.
BoundToExistingUser(r) ==
    \/ req[r].ctxUid # 0 /\ req[r].uid = req[r].ctxUid
    \/ \E u \in users : u.id = req[r].uid /\ u.username = req[r].uname

\* C35: a registerFinish that obtained a registration challenge bound to an
\* existing user's id and username fails with UsernameTaken at its username
\* check: no User row is created or deleted, no credential is stored, and
\* such a request never comes to the user insert or beyond.
C35_AddPasskeyChallengeAtRegisterFinish ==
    /\ [][\A r \in Slots :
            Steps(r, "registerFinish", "rfSelect") /\ BoundToExistingUser(r) =>
                /\ req'[r].pc = "done"
                /\ req'[r].res = "USERNAME_TAKEN"
                /\ users' = users /\ creds' = creds]_vars
    /\ [](\A r \in Slots :
            req[r].op = "registerFinish" /\ req[r].ctxUid # 0
            /\ req[r].uid = req[r].ctxUid
            => req[r].pc = "rfSelect")

\* alice's registerFinish with the challenge of her addPasskeyStart has
\* failed; the challenge is consumed and her credential is still there.
C35_Witness ==
    /\ \E r \in Slots : req[r].op = "registerFinish" /\ req[r].res = "USERNAME_TAKEN"
    /\ nextUid = 2
    /\ consumed[2] = 1
    /\ users = {[id |-> 1, username |-> "alice"]}
    /\ creds["c1"].owner = 1

----------------------------------------------------------------------------
\* A failed Finish has consumed its challenge.

\* Request r is a Finish at its getAndClearChallenge.
ReadsChallenge(r) ==
    /\ req[r].pc \in {"rfChallenge", "lfChallenge", "afChallenge"}
    /\ req'[r] # req[r]

\* C36: a Finish that obtains its challenge clears it from the session at
\* once, whatever becomes of the request afterwards, and no later step of a
\* Finish that fails writes the session; so after a Finish that got past
\* its challenge, failed or not, the session holds no challenge, and a
\* Finish called with a session that holds none fails with NoChallenge.
C36_FailedFinishConsumes ==
    /\ [][\A r \in Slots :
            LET q == req[r] IN
            /\ ReadsChallenge(r) /\ req'[r].res # "NO_CHALLENGE" =>
                /\ jar'[q.sess].challenge = 0
                /\ jar'[q.sess].challengeType = "none"
                /\ consumed'[q.session.challenge] = consumed[q.session.challenge] + 1
            /\ ReadsChallenge(r) /\ q.session.challenge = 0 =>
                /\ req'[r].res = "NO_CHALLENGE"
                /\ jar' = jar
            /\ (/\ q.op \in {"registerFinish", "loginFinish", "addPasskeyFinish"}
                /\ ~ReadsChallenge(r) /\ req'[r] # q
                /\ req'[r].pc = "done" /\ req'[r].res # "ok") => jar' = jar]_vars
    /\ [](/\ \A r \in Slots : Free(r)
          /\ req[1].op \in {"registerFinish", "loginFinish", "addPasskeyFinish"}
          /\ req[1].res \notin {"NO_CHALLENGE", "UNAUTHORIZED"}
          => jar["s1"].challenge = 0 /\ jar["s1"].challengeType = "none")

\* The only challenge ever issued went to a Finish that failed, and the
\* Finish repeated after it found none.
C36_Witness ==
    /\ \A r \in Slots : Free(r)
    /\ req[1].op = "registerFinish" /\ req[1].res = "NO_CHALLENGE"
    /\ nextChal = 2
    /\ consumed[1] = 1
    /\ users = {}
    /\ jar["s1"].challenge = 0

----------------------------------------------------------------------------
\* Challenge operations and the identity.

\* Request r stores a challenge.
StoresChallenge(r) ==
    /\ req[r].pc \in {"rsBody", "lsBody", "asBody"}
    /\ req'[r] # req[r]

\* C37: storing a challenge and reading and clearing one leave userId,
\* username and createdAt as the request found them: the session a Start
\* or a Finish saves at its challenge step names the user the request came
\* with, since the same createSession, and the request goes on with that
\* identity.
C37_ChallengeStepsKeepIdentity ==
    [][\A r \in Slots :
        LET q == req[r] IN
        StoresChallenge(r) \/ ReadsChallenge(r) =>
            /\ jar'[q.sess] # jar[q.sess] =>
                    Identity(jar'[q.sess]) = Identity(q.session)
            /\ req'[r].pc # "done" =>
                    Identity(req'[r].session) = Identity(q.session)
            /\ q.ctxUid # 0 =>
                    /\ q.session.userId = q.ctxUid
                    /\ q.session.username = q.ctxName]_vars

\* alice is still logged in, with the session of her registration, after
\* she added a passkey.
C37_Witness ==
    /\ \E r \in Slots : req[r].op = "addPasskeyFinish" /\ req[r].res = "ok"
    /\ jar["s1"] = SessionOf(1, "alice")
    /\ Cardinality(CredsOf(1)) = 2
    /\ consumed[2] = 1

----------------------------------------------------------------------------
\* A Finish of the other ceremony.

\* The session request r came with holds a challenge of the ceremony that
\* r does not finish.
WrongType(r) ==
    /\ req[r].session.challenge # 0
    /\ \/ /\ req[r].op \in {"registerFinish", "addPasskeyFinish"}
          /\ req[r].session.challengeType = "authentication"
       \/ /\ req[r].op = "loginFinish"
          /\ req[r].session.challengeType = "registration"

\* C38: a Finish whose session holds a challenge of the other ceremony
\* type, or none, fails with NoChallenge and neither changes nor saves the
\* session: the cookie, the challenge count and the store stay as they
\* are, so the challenge is still there for the Finish of its own ceremony,
\* which obtains it.
C38_WrongFinishKeepsChallenge ==
    [][\A r \in Slots :
        LET q == req[r] IN
        /\ ReadsChallenge(r) /\ (WrongType(r) \/ q.session.challenge = 0) =>
            /\ req'[r].res = "NO_CHALLENGE"
            /\ jar' = jar /\ consumed' = consumed
            /\ users' = users /\ creds' = creds
        /\ ReadsChallenge(r) /\ q.session.challenge # 0 /\ ~WrongType(r) =>
            /\ req'[r].res # "NO_CHALLENGE"
            /\ consumed'[q.session.challenge] = consumed[q.session.challenge] + 1]_vars

\* A loginFinish found no challenge of its type; the registration started
\* in the session has since obtained its challenge.
C38_Witness ==
    /\ \E r \in Slots : req[r].op = "loginFinish" /\ req[r].res = "NO_CHALLENGE"
    /\ \E r \in Slots : req[r].pc = "rfSelect" /\ req[r].chal = 2
    /\ nextChal = 3
    /\ consumed[2] = 1

----------------------------------------------------------------------------
\* Protected procedures.

ProtectedProcedures ==
    {"logout", "getProfile", "updateDisplayName", "getCredentials",
     "addPasskeyStart", "addPasskeyFinish", "removeCredential", "renameCredential"}

\* The session names a user and has not reached the absolute maximum age.
ValidSession(session, t) ==
    /\ session.userId # 0
    /\ session.createdAt # 0
    /\ t - session.createdAt <= ABSOLUTE_MAX_AGE

\* Request r, of a protected procedure, arrives with the cookie of client s.
\* Without a valid session it ends UNAUTHORIZED: no row changes, no
\* challenge is drawn, stored or counted as consumed, and the cookie stays
\* as it is unless it was expired, which empties it. With a valid session
\* the body runs for the session's user.
C39_Arrival(r, s) ==
    IF ~ValidSession(jar[s], now)
    THEN /\ req'[r].pc = "done"
         /\ req'[r].res = "UNAUTHORIZED"
         /\ users' = users /\ creds' = creds
         /\ consumed' = consumed /\ nextChal' = nextChal
         /\ \A s2 \in Sessions \ {s} : jar'[s2] = jar[s2]
         /\ \/ jar'[s] = jar[s]
            \/ Expired(jar[s], now) /\ jar'[s] = EmptySession
    ELSE /\ req'[r].pc # "done"
         /\ req'[r].sess = s
         /\ req'[r].ctxUid = jar[s].userId
         /\ req'[r].ctxName = jar[s].username
         /\ jar' = jar

\* A step of the body of protected request r touches only what belongs to
\* the user of its context: no User row changes, a Credential row that
\* changes is or becomes that user's, only the request's own cookie
\* changes and it names no other user, and what is read is that user's.
C39_Body(r) ==
    LET q == req[r] IN
    /\ q.ctxUid # 0
    /\ users' = users
    /\ \A c \in CredIds :
        creds'[c] # creds[c] =>
            \/ creds[c].owner = q.ctxUid
            \/ creds[c].owner = 0 /\ creds'[c].owner = q.ctxUid
    /\ \A s \in Sessions :
        jar'[s] # jar[s] =>
            /\ s = q.sess
            /\ jar'[s].userId \in {0, q.ctxUid}
            /\ jar'[s].challenge # 0 => jar'[s].pendingUserId = q.ctxUid
    /\ (q.op = "getProfile" /\ req'[r].res = "ok") =>
            \E u \in users : u.id = q.ctxUid /\ u.username = req'[r].msg
    /\ q.op = "getCredentials" =>
            req'[r].n = Cardinality({c \in CredIds : creds[c].owner = q.ctxUid})

\* C39: a protected procedure (logout, getProfile, updateDisplayName,
\* getCredentials, addPasskeyStart, addPasskeyFinish, removeCredential,
\* renameCredential) called without a valid session is rejected as
\* UNAUTHORIZED before its body runs, changing no store row and storing or
\* consuming no challenge; when its body runs, it acts only on the userId of
\* the session.
C39_ProtectedNeedsSession ==
    [][\A r \in Slots :
        /\ (Arrives(r) /\ req'[r].op \in ProtectedProcedures) =>
            (\E s \in Sessions : C39_Arrival(r, s))
        /\ (req[r].op \in ProtectedProcedures /\ ~Free(r) /\ req'[r] # req[r]) =>
            C39_Body(r)]_vars

\* alice's session has aged out and her call was refused, leaving her
\* passkey as it was registered; bob had renamed his.
C39_Witness ==
    /\ jar["s1"] = EmptySession
    /\ req[1].op = "updateDisplayName"
    /\ req[1].res = "UNAUTHORIZED"
    /\ now > 1 + ABSOLUTE_MAX_AGE
    /\ creds["c1"] = NewCredential(1, "Passkey 1", 0)
    /\ creds["c2"].owner = 2 /\ creds["c2"].name = "My Phone"
    /\ jar["s2"].userId = 2

====
